---- MODULE Spec2Model ----
(***************************************************************************)
(* Model of the storage engine of next-file-guard                          *)
(* (src/src/lib/localFileStorage.ts with the IndexedDB helper it imports). *)
(*                                                                         *)
(* Strings that the code inspects character by character (paths, names)    *)
(* are sequences of one-character strings.  Byte contents are sequences    *)
(* of numbers 0..255.  The primary store is localStorage, the secondary    *)
(* store is the IndexedDB object store 'files'.                            *)
(***************************************************************************)
EXTENDS Integers, Sequences, FiniteSets, TLC

(***************************************************************************)
(* Bounds of the model.                                                    *)
(***************************************************************************)
\* chunk size in bytes (5 MiB in the code, scaled)
CHUNK_SIZE_BYTES == 2
\* number of chunks that fit under the size ceiling (10 in the code, scaled)
MaxChunks == 2
\* number of ids the engine may generate in one run
MaxIds == 2
\* largest value of the clock
MaxTime == 1
\* entries the activity log keeps (1000 in the code), as the environments
\* scale it: one entry where the log is not what is looked at, and enough
\* entries to see their order where it is
SmallLog == 1

LargeLog == 3
\* number of ids where an earlier session has used some of them
ManyIds == 4
\* largest number of writes or evictions of one key that is counted
MaxCount == 8

\* the size ceiling is a whole number of chunks (50 MiB = 10 * 5 MiB)
MAX_FILE_SIZE_BYTES == MaxChunks * CHUNK_SIZE_BYTES

ASSETS_ROOT == <<"/", "a", "s", "s", "e", "t", "s">>

ALLOWED_MIME_TYPES ==
  {"image/png", "image/jpeg", "image/gif", "application/pdf", "text/plain",
   "text/csv", "application/json"}

maxRetries == 2

(***************************************************************************)
(* String helpers (String.prototype.startsWith, replace(/^\/+/, ''),       *)
(* replace(/\/$/, ''), split('/').pop(), lastIndexOf('/')).                *)
(***************************************************************************)
StartsWith(s, p) == Len(p) <= Len(s) /\ SubSeq(s, 1, Len(p)) = p

RECURSIVE StripLeadingSlashes(_)
StripLeadingSlashes(s) ==
  IF s # << >> /\ Head(s) = "/" THEN StripLeadingSlashes(Tail(s)) ELSE s

StripTrailingSlash(s) ==
  IF s # << >> /\ s[Len(s)] = "/" THEN SubSeq(s, 1, Len(s) - 1) ELSE s

\* index of the last "/" of s, 0 when there is none (lastIndexOf is 0-based
\* with -1 for none; the model is 1-based with 0 for none)
LastSlash(s) ==
  LET idx == {i \in 1..Len(s) : s[i] = "/"}
  IN IF idx = {} THEN 0 ELSE CHOOSE i \in idx : \A j \in idx : j <= i

\* s.split('/').pop()
LastSegment(s) == SubSeq(s, LastSlash(s) + 1, Len(s))

Join(dir, name) == dir \o <<"/">> \o name

(***************************************************************************)
(* Base64, as FileReader.readAsDataURL and atob compute it.  A base64      *)
(* string is a sequence of digits 0..63, with 64 for the padding '='.      *)
(***************************************************************************)
B64Pad == 63 + 1

RECURSIVE Base64Encode(_)
Base64Encode(bytes) ==
  IF Len(bytes) = 0 THEN << >>
  ELSE IF Len(bytes) = 1 THEN
    <<bytes[1] \div 4, (bytes[1] % 4) * 16, B64Pad, B64Pad>>
  ELSE IF Len(bytes) = 2 THEN
    <<bytes[1] \div 4, (bytes[1] % 4) * 16 + bytes[2] \div 16,
      (bytes[2] % 16) * 4, B64Pad>>
  ELSE
    <<bytes[1] \div 4, (bytes[1] % 4) * 16 + bytes[2] \div 16,
      (bytes[2] % 16) * 4 + bytes[3] \div 64, bytes[3] % 64>>
    \o Base64Encode(SubSeq(bytes, 4, Len(bytes)))

RECURSIVE Base64Decode(_)
Base64Decode(b64) ==
  IF Len(b64) < 4 THEN << >>
  ELSE
    LET c1 == b64[1]
        c2 == b64[2]
        c3 == b64[3]
        c4 == b64[4]
        b1 == c1 * 4 + c2 \div 16
        b2 == (c2 % 16) * 16 + c3 \div 4
        b3 == (c3 % 4) * 64 + c4
        rest == Base64Decode(SubSeq(b64, 5, Len(b64)))
    IN IF c3 = B64Pad THEN <<b1>>
       ELSE IF c4 = B64Pad THEN <<b1, b2>>
       ELSE <<b1, b2, b3>> \o rest

(***************************************************************************)
(* Inputs.                                                                 *)
(***************************************************************************)
Users == {"alice", "bob"}

FileNames == {<<"f">>}

\* contents of n bytes, all different and on both sides of 128
Content(n) == [i \in 1..n |-> (201 + 37 * (i - 1)) % 256]

\* a file of every size from 1 to one above the ceiling, an empty file with no
\* declared type, and a file of a type outside the allow-list
Files ==
  {[name |-> nm, type |-> "text/plain", bytes |-> Content(n)] :
     nm \in FileNames, n \in 1..(MAX_FILE_SIZE_BYTES + 1)}
  \cup {[name |-> nm, type |-> "", bytes |-> << >>] : nm \in FileNames}
  \cup {[name |-> nm, type |-> "application/zip", bytes |-> Content(1)] :
          nm \in FileNames}

(***************************************************************************)
(* State.                                                                  *)
(***************************************************************************)
VARIABLES
  metadata,     \* this.metadata: the records, in Map insertion order
  activityLog,  \* this.activityLog
  initialized,  \* this.initialized
  ls,           \* localStorage: the virtual_file_ keys and their payloads
  lsMeta,       \* localStorage[METADATA_KEY]: <<>> when absent, else <<snapshot>>
  idb,          \* the IndexedDB object store: fileId -> blob
  now,          \* the clock read by new Date()
  nextId,       \* ids generated so far, plus one
  up,           \* the uploadFile call in progress and its position
  ret,          \* the outcome of the public call that completed last
  del,          \* the deleteDirectory call that awaits idb.deleteBlob, if any
  env           \* the environment: the inputs callers pass and the store
                \* operations that can fail; it never changes

vars ==
  <<metadata, activityLog, initialized, ls, lsMeta, idb, now, nextId, up, ret, del,
    env>>

\* the outcomes of a store operation of a kind: it completes (TRUE), or it may
\* also fail when the environment makes operations of that kind fail.
\*   "write"  localStorage.setItem of a file or chunk key throws (quota)
\*   "save"   localStorage.setItem of the catalog snapshot throws (quota)
\*   "put"    idb.putBlob rejects
\*   "delete" idb.deleteBlob rejects
\*   "read"   FileReader fails in blobToBase64
\*   "get"    the request of idb.getBlob fails
Outcomes(kind) == IF kind \in env.faults THEN BOOLEAN ELSE {TRUE}

\* 1000 in the code; the environment gives the scaled value
MAX_LOG_ENTRIES == env.logEntries

\* a setItem that drops the other keys
Put_Alone(f, k, v) == [x \in {k} |-> v]

\* `virtual_file_${id}` is [id |-> id, chunk |-> -1],
\* `virtual_file_${id}_chunk_${i}` is [id |-> id, chunk |-> i]
FileKey(id) == [id |-> id, chunk |-> -1]

ChunkKey(id, i) == [id |-> id, chunk |-> i]

\* Storage.setItem / Map.set, and removeItem / delete of a set of keys
Put(f, k, v) == [x \in (DOMAIN f) \cup {k} |-> IF x = k THEN v ELSE f[x]]

Remove(f, K) == [x \in (DOMAIN f) \ K |-> f[x]]

Empty == [x \in {} |-> 0]

Ids(md) == {md[i].id : i \in 1..Len(md)}

\* this.metadata.get(id), for an id the map holds
Get(md, id) == md[CHOOSE i \in 1..Len(md) : md[i].id = id]

RECURSIVE MapDelete(_, _)
\* this.metadata.delete of a set of ids: the other records keep their order
MapDelete(md, K) ==
  IF md = << >> THEN << >>
  ELSE IF Head(md).id \in K THEN MapDelete(Tail(md), K)
  ELSE <<Head(md)>> \o MapDelete(Tail(md), K)

\* JSON.stringify of a record turns its Dates into ISO strings
SerializeRecord(r) ==
  [r EXCEPT !.createdAt = <<"iso", @>>, !.modifiedAt = <<"iso", @>>]

\* new Date(item.createdAt) on loading
ParseRecord(r) ==
  [r EXCEPT !.createdAt = @[2], !.modifiedAt = @[2]]

SerializeMetadata(md) == [i \in 1..Len(md) |-> SerializeRecord(md[i])]

ParseMetadata(snap) == [i \in 1..Len(snap) |-> ParseRecord(snap[i])]

\* a trim that keeps the oldest entries: slice(0, MAX_LOG_ENTRIES)
TrimLog_KeepOldest(log) ==
  IF Len(log) > MAX_LOG_ENTRIES THEN SubSeq(log, 1, MAX_LOG_ENTRIES) ELSE log

\* saveActivityLog, lines 144-146: slice(-MAX_LOG_ENTRIES) of a log that is
\* longer than MAX_LOG_ENTRIES
TrimLog(log) ==
  IF Len(log) > MAX_LOG_ENTRIES
  THEN SubSeq(log, Len(log) - MAX_LOG_ENTRIES + 1, Len(log))
  ELSE log

\* logActivity: push, then saveActivityLog (which runs up to its end before
\* logActivity returns: it awaits nothing)
LogActivity(log, action, path, user, success, error) ==
  TrimLog(Append(log, [action |-> action, path |-> path, user |-> user,
                       success |-> success, error |-> error]))

NoError == ""

Idle == [pc |-> "idle"]

IsIdle == up.pc = "idle"

\* what the caller of a public operation gets: a value, or the error thrown
Result(op, ok, err, id) ==
  [op |-> op, ok |-> ok, err |-> err, id |-> id]

InitEngine ==
  /\ metadata = << >>
  /\ activityLog = << >>
  /\ initialized = FALSE
  /\ ls = Empty
  /\ lsMeta = << >>
  /\ idb = Empty
  /\ now = 0
  /\ nextId = 1
  /\ del = Idle
  /\ up = Idle
  /\ ret = [op |-> "none", ok |-> TRUE, err |-> NoError, id |-> 0]

\* initialize(): loadMetadata, loadActivityLog, then the 'system_init' entry.
\* Every public operation awaits initialize() first; the model takes that
\* await as a step of its own, so the operations below start initialized.
Initialize ==
  /\ ~initialized
  /\ metadata' = IF lsMeta = << >> THEN metadata ELSE ParseMetadata(lsMeta[1])
  /\ activityLog' = LogActivity(activityLog, "system_init", <<"system">>, "system", TRUE,
                                NoError)
  /\ initialized' = TRUE
  /\ UNCHANGED <<ls, lsMeta, idb, now, nextId, up, ret>>
  /\ UNCHANGED <<del, env>>

\* time passes between two reads of the clock
Tick ==
  /\ now < MaxTime
  /\ now' = now + 1
  /\ UNCHANGED <<metadata, activityLog, initialized, ls, lsMeta, idb, nextId, up, ret>>
  /\ UNCHANGED <<del, env>>

(***************************************************************************)
(* cleanupOldFiles(excludeFileId), up to its `await this.saveMetadata()`.  *)
(* delOk: whether idb.deleteBlob completed (its rejection is swallowed).   *)
(***************************************************************************)
\* items: the file records other than excludeFileId, as indices into the map
CleanupItems(md, excludeFileId) ==
  {i \in 1..Len(md) : md[i].type = "file" /\ md[i].id # excludeFileId}

\* items[0] after the stable sort by createdAt
CleanupVictim(md, excludeFileId) ==
  LET items == CleanupItems(md, excludeFileId)
  IN md[CHOOSE i \in items :
          \A j \in items :
            \/ md[i].createdAt < md[j].createdAt
            \/ (md[i].createdAt = md[j].createdAt /\ i <= j)]

\* the keys removeItem is called with for a record: the unchunked key and the
\* chunk keys 0..chunkCount-1
RecordKeys(m) == {FileKey(m.id)} \cup {ChunkKey(m.id, i) : i \in 0..(m.chunkCount - 1)}

\* idb.deleteBlob(id) inside try {} catch {}: the blob goes when the
\* transaction completes and stays when it fails
DeleteBlob(blobs, id, delOk) == IF delOk THEN Remove(blobs, {id}) ELSE blobs

\* an eviction that removes the data of the victim and keeps its record
cleanupOldFiles_KeepRecord(md, store, blobs, excludeFileId, delOk) ==
  IF CleanupItems(md, excludeFileId) = {}
  THEN [cleaned |-> FALSE, metadata |-> md, ls |-> store, idb |-> blobs, path |-> << >>]
  ELSE LET victim == CleanupVictim(md, excludeFileId)
       IN [cleaned |-> TRUE,
           metadata |-> md,
           ls |-> Remove(store, RecordKeys(victim)),
           idb |-> IF victim.storageMethod = "indexedDB"
                   THEN DeleteBlob(blobs, victim.id, delOk) ELSE blobs,
           path |-> victim.path]

cleanupOldFiles(md, store, blobs, excludeFileId, delOk) ==
  IF CleanupItems(md, excludeFileId) = {}
  THEN [cleaned |-> FALSE, metadata |-> md, ls |-> store, idb |-> blobs, path |-> << >>]
  ELSE LET victim == CleanupVictim(md, excludeFileId)
       IN [cleaned |-> TRUE,
           metadata |-> MapDelete(md, {victim.id}),
           ls |-> Remove(store, RecordKeys(victim)),
           idb |-> IF victim.storageMethod = "indexedDB"
                   THEN DeleteBlob(blobs, victim.id, delOk) ELSE blobs,
           path |-> victim.path]

(***************************************************************************)
(* uploadFile.  The call is a sequence of steps, one per stretch of code   *)
(* between two awaits of a store; `up.pc` is its position.                 *)
(***************************************************************************)
Max(a, b) == IF a >= b THEN a ELSE b

\* one more write or eviction counted
Counted(n) == IF n < MaxCount THEN n + 1 ELSE n

Min(a, b) == IF a <= b THEN a ELSE b

\* a count that rounds down: Math.max(1, Math.floor(totalBytes / CHUNK_SIZE_BYTES))
ChunkCount_Floor(totalBytes) == Max(1, totalBytes \div CHUNK_SIZE_BYTES)

\* Math.max(1, Math.ceil(totalBytes / CHUNK_SIZE_BYTES))
ChunkCount(totalBytes) ==
  Max(1, (totalBytes + CHUNK_SIZE_BYTES - 1) \div CHUNK_SIZE_BYTES)

\* a normalization that keeps the leading slashes of a relative destination
NormalizePath_KeepSlashes(path) ==
  IF StartsWith(path, ASSETS_ROOT) THEN path
  ELSE IF path = <<"/">> THEN ASSETS_ROOT
  ELSE Join(ASSETS_ROOT, path)

\* the destination string, rooted under ASSETS_ROOT
NormalizePath(path) ==
  IF StartsWith(path, ASSETS_ROOT) THEN path
  ELSE IF path = <<"/">> THEN ASSETS_ROOT
  ELSE Join(ASSETS_ROOT, StripLeadingSlashes(path))

\* a slice that takes `end` for the index of the last byte
Slice_EndInclusive(bytes, start, end) == SubSeq(bytes, start + 1, end - 1)

\* file.slice(start, end), both 0-based, end exclusive
Slice(bytes, start, end) == SubSeq(bytes, start + 1, end)

\* a start one byte early for every chunk but the first
ChunkStart_Overlap(i) == IF i = 0 THEN 0 ELSE i * CHUNK_SIZE_BYTES - 1

ChunkStart(i) == i * CHUNK_SIZE_BYTES

\* an end that is the length of the chunk, not its offset in the file
ChunkEnd_Length(i, totalBytes) ==
  Min(CHUNK_SIZE_BYTES, totalBytes - ChunkStart(i))

ChunkEnd(i, totalBytes) == Min(ChunkStart(i) + CHUNK_SIZE_BYTES, totalBytes)

\* the payload stored under `virtual_file_${fileId}`
WholePayload(file, filePath) ==
  [data |-> Base64Encode(file.bytes), name |-> file.name, type |-> file.type,
   size |-> Len(file.bytes), path |-> filePath]

\* the payload stored under `virtual_file_${fileId}_chunk_${i}`
ChunkPayload(file, i, chunkCount) ==
  [data |-> Base64Encode(Slice(file.bytes, ChunkStart(i), ChunkEnd(i, Len(file.bytes)))),
   index |-> i, total |-> chunkCount, type |-> file.type]

Progress(loadedBytes, chunkIndex, method) ==
  [loadedBytes |-> loadedBytes, chunkIndex |-> chunkIndex, method |-> method]

\* the catch block of uploadFile: the failure entry, then the throw.  The
\* arguments are the catalog and the stores as the failed step leaves them.
\* `message` is the message of the error caught; the error thrown wraps it
\* as `Failed to upload file: ${error}`.
UploadThrows(message, md, store, blobs) ==
  /\ metadata' = md
  /\ ls' = store
  /\ idb' = blobs
  /\ activityLog' = LogActivity(activityLog, "upload", Join(up.path, up.file.name),
                                up.user, FALSE, message)
  /\ ret' = Result("uploadFile", FALSE, message, up.id)
  /\ up' = Idle
  /\ UNCHANGED <<initialized, lsMeta, now, nextId>>

\* a validation that refuses a file of exactly the ceiling size
ValidationError_CeilingExclusive(file) ==
  IF file.type # "" /\ file.type \notin ALLOWED_MIME_TYPES THEN "Unsupported file type"
  ELSE IF Len(file.bytes) >= MAX_FILE_SIZE_BYTES THEN "File exceeds 50MB limit"
  ELSE NoError

\* the two validations of lines 241-246: the message thrown, or NoError
ValidationError(file) ==
  IF file.type # "" /\ file.type \notin ALLOWED_MIME_TYPES THEN "Unsupported file type"
  ELSE IF Len(file.bytes) > MAX_FILE_SIZE_BYTES THEN "File exceeds 50MB limit"
  ELSE NoError

\* validation, the id and the chunk count (lines 239-259)
UploadStart(file, path, uploadedBy) ==
  /\ initialized /\ IsIdle
  /\ IF ValidationError(file) # NoError
     THEN /\ LET message == ValidationError(file)
             IN /\ activityLog' = LogActivity(activityLog, "upload", Join(path, file.name),
                                              uploadedBy, FALSE, message)
                /\ ret' = Result("uploadFile", FALSE, message, 0)
          /\ UNCHANGED <<metadata, initialized, ls, lsMeta, idb, now, nextId, up>>
     ELSE /\ nextId <= env.ids
          /\ up' = [pc |-> IF ChunkCount(Len(file.bytes)) = 1 THEN "single" ELSE "chunk",
                    id |-> nextId, file |-> file, path |-> path, user |-> uploadedBy,
                    filePath |-> Join(NormalizePath(path), file.name),
                    chunkCount |-> ChunkCount(Len(file.bytes)),
                    i |-> 0, attempt |-> 0, usedMethod |-> "localStorage",
                    loadedBytes |-> 0, progress |-> << >>,
                    writes |-> 0, evicted |-> 0, failed |-> FALSE]
          /\ nextId' = nextId + 1
          /\ UNCHANGED <<metadata, activityLog, initialized, ls, lsMeta, idb, now, ret>>
  /\ UNCHANGED <<del, env>>

\* a primary write after which the blob is put into the secondary store too
Stored_ThenSecondary(u, loadedBytes) ==
  [u EXCEPT !.loadedBytes = loadedBytes,
            !.progress = Append(@, Progress(loadedBytes, u.i, "localStorage")),
            !.i = IF u.chunkCount = 1 THEN u.i ELSE u.i + 1,
            !.attempt = 0,
            !.writes = IF u.chunkCount = 1 THEN Counted(@) ELSE 0,
            !.evicted = IF u.chunkCount = 1 THEN @ ELSE 0,
            !.pc = IF u.chunkCount = 1 THEN "putblob"
                   ELSE IF u.i + 1 = u.chunkCount THEN "record" ELSE "chunk"]

\* one chunk or the whole file is in the primary store: the progress report
\* and the next position.  `writes` and `evicted` count the setItem calls and
\* the evictions made for the key being written; they start again with the
\* next chunk.  `failed` tells whether a setItem of this upload has thrown.
Stored(u, loadedBytes) ==
  [u EXCEPT !.loadedBytes = loadedBytes,
            !.progress = Append(@, Progress(loadedBytes, u.i, "localStorage")),
            !.i = IF u.chunkCount = 1 THEN u.i ELSE u.i + 1,
            !.attempt = 0,
            !.writes = IF u.chunkCount = 1 THEN Counted(@) ELSE 0,
            !.evicted = IF u.chunkCount = 1 THEN @ ELSE 0,
            !.pc = IF u.chunkCount = 1 \/ u.i + 1 = u.chunkCount THEN "record" ELSE "chunk"]

\* the single-chunk path, lines 262-269: blobToBase64, then the first setItem
UploadSingle ==
  /\ up.pc = "single"
  /\ \E encoded \in Outcomes("read"), written \in Outcomes("write") :
       IF ~encoded THEN UploadThrows("Failed to read blob", metadata, ls, idb)
       ELSE /\ IF written
               THEN /\ ls' = Put(ls, FileKey(up.id), WholePayload(up.file, up.filePath))
                    /\ up' = Stored(up, Len(up.file.bytes))
               ELSE /\ ls' = ls
                    /\ up' = [up EXCEPT !.pc = "single_cleanup", !.writes = Counted(@),
                                        !.failed = TRUE]
            /\ UNCHANGED <<metadata, activityLog, initialized, lsMeta, idb, now,
                           nextId, ret>>
  /\ UNCHANGED <<del, env>>

\* saveMetadata: the snapshot is written, or setItem throws
SaveThrows == "Failed to save metadata"

\* the single-chunk path, lines 270-281: cleanupOldFiles, then the retry
UploadSingleCleanup ==
  /\ up.pc = "single_cleanup"
  /\ \E delOk \in Outcomes("delete"), saved \in Outcomes("save"),
        written \in Outcomes("write") :
       LET c == cleanupOldFiles(metadata, ls, idb, up.id, delOk)
       IN IF ~c.cleaned
          THEN /\ up' = [up EXCEPT !.pc = "putblob"]
               /\ UNCHANGED <<metadata, activityLog, initialized, ls, lsMeta, idb,
                              now, nextId, ret>>
          ELSE IF ~saved
          THEN UploadThrows(SaveThrows, c.metadata, c.ls, c.idb)
          ELSE /\ metadata' = c.metadata
               /\ idb' = c.idb
               /\ lsMeta' = <<SerializeMetadata(c.metadata)>>
               /\ activityLog' = LogActivity(activityLog, "auto_cleanup", c.path,
                                             "system", TRUE, NoError)
               /\ IF written
                  THEN /\ ls' = Put(c.ls, FileKey(up.id), WholePayload(up.file, up.filePath))
                       /\ up' = Stored([up EXCEPT !.evicted = Counted(@)], Len(up.file.bytes))
                  ELSE /\ ls' = c.ls
                       /\ up' = [up EXCEPT !.pc = "putblob", !.evicted = Counted(@),
                                           !.writes = Counted(@)]
               /\ UNCHANGED <<initialized, now, nextId, ret>>
  /\ UNCHANGED <<del, env>>

\* idb.putBlob(fileId, file) of either path (lines 283-285, 315-318)
UploadPutBlob ==
  /\ up.pc = "putblob"
  /\ \E put \in Outcomes("put") :
       IF ~put THEN UploadThrows("QuotaExceededError", metadata, ls, idb)
       ELSE /\ idb' = Put(idb, up.id, up.file.bytes)
            /\ up' = [up EXCEPT !.usedMethod = "indexedDB",
                                !.loadedBytes = Len(up.file.bytes),
                                !.progress = Append(@, Progress(Len(up.file.bytes), up.i,
                                                                "indexedDB")),
                                !.pc = "record"]
            /\ UNCHANGED <<metadata, activityLog, initialized, ls, lsMeta, now,
                           nextId, ret>>
  /\ UNCHANGED <<del, env>>

\* the setItem of chunk up.i inside the while loop (lines 298-302)
ChunkWrite(written) ==
  /\ IF written
     THEN /\ ls' = Put(ls, ChunkKey(up.id, up.i), ChunkPayload(up.file, up.i, up.chunkCount))
          /\ up' = Stored(up, ChunkEnd(up.i, Len(up.file.bytes)))
     ELSE /\ ls' = ls
          /\ up' = [up EXCEPT !.pc = "chunk_cleanup", !.writes = Counted(@),
                              !.failed = TRUE]
  /\ UNCHANGED <<metadata, activityLog, initialized, lsMeta, idb, now, nextId, ret>>

\* the head of the chunk loop, lines 289-302: slice, blobToBase64, first setItem
UploadChunk ==
  /\ up.pc = "chunk"
  /\ \E encoded \in Outcomes("read"), written \in Outcomes("write") :
       IF ~encoded THEN UploadThrows("Failed to read blob", metadata, ls, idb)
       ELSE ChunkWrite(written)
  /\ UNCHANGED <<del, env>>

\* a later turn of the while loop: setItem again
UploadChunkRetry ==
  /\ up.pc = "chunk_retry"
  /\ \E written \in Outcomes("write") : ChunkWrite(written)
  /\ UNCHANGED <<del, env>>

\* a removal loop that starts at chunk 1
WrittenChunkKeys_FromOne(id, i) == {ChunkKey(id, j) : j \in 1..(i - 1)}

\* the keys removed when the primary attempt is given up (lines 312-314)
WrittenChunkKeys(id, i) == {ChunkKey(id, j) : j \in 0..(i - 1)}

\* an attempt that is not counted
NextAttempt_Stuck(attempt) == attempt

\* attempt++ (line 305)
NextAttempt(attempt) == attempt + 1

\* the catch of the while loop, lines 303-314: cleanupOldFiles, the retry
\* budget, and the removal of the chunks written so far when it is spent
UploadChunkCleanup ==
  /\ up.pc = "chunk_cleanup"
  /\ \E delOk \in Outcomes("delete"), saved \in Outcomes("save") :
       LET c == cleanupOldFiles(metadata, ls, idb, up.id, delOk)
       IN IF ~c.cleaned
          THEN /\ IF NextAttempt(up.attempt) > maxRetries
                  THEN /\ ls' = Remove(ls, WrittenChunkKeys(up.id, up.i))
                       /\ up' = [up EXCEPT !.attempt = NextAttempt(@), !.pc = "putblob"]
                  ELSE /\ ls' = ls
                       /\ up' = [up EXCEPT !.attempt = NextAttempt(@),
                                           !.pc = "chunk_retry"]
               /\ UNCHANGED <<metadata, activityLog, initialized, lsMeta, idb, now,
                              nextId, ret>>
          ELSE IF ~saved
          THEN UploadThrows(SaveThrows, c.metadata, c.ls, c.idb)
          ELSE /\ metadata' = c.metadata
               /\ ls' = c.ls
               /\ idb' = c.idb
               /\ lsMeta' = <<SerializeMetadata(c.metadata)>>
               /\ activityLog' = LogActivity(activityLog, "auto_cleanup", c.path,
                                             "system", TRUE, NoError)
               /\ up' = [up EXCEPT !.pc = "chunk_retry", !.evicted = Counted(@)]
               /\ UNCHANGED <<initialized, now, nextId, ret>>
  /\ UNCHANGED <<del, env>>

\* the record of the upload (lines 327-343)
UploadMetadata(u, date) ==
  [id |-> u.id, name |-> u.file.name, path |-> u.filePath, type |-> "file",
   size |-> Len(u.file.bytes), createdAt |-> date, modifiedAt |-> date,
   uploadedBy |-> u.user,
   permissions |-> [read |-> {u.user}, write |-> {u.user}, delete |-> {u.user}],
   storageMethod |-> u.usedMethod,
   chunkCount |-> IF u.usedMethod = "localStorage" THEN u.chunkCount ELSE 0]

\* lines 327-351: the record, saveMetadata, the two log entries, the return
UploadRecord ==
  /\ up.pc = "record"
  /\ LET m == UploadMetadata(up, now)
         md == Append(metadata, m)
     IN \E saved \in Outcomes("save") :
          IF ~saved THEN UploadThrows(SaveThrows, md, ls, idb)
          ELSE /\ metadata' = md
               /\ lsMeta' = <<SerializeMetadata(md)>>
               /\ LET log1 == LogActivity(activityLog, "upload", m.path, up.user, TRUE,
                                          NoError)
                      log2 == LogActivity(log1, "upload_perf", m.path, up.user, TRUE,
                                          up.usedMethod)
                  IN activityLog' = log2
               /\ ret' = Result("uploadFile", TRUE, NoError, up.id)
               /\ up' = Idle
               /\ UNCHANGED <<initialized, ls, idb, now, nextId>>
  /\ UNCHANGED <<del, env>>

(***************************************************************************)
(* downloadFile.                                                           *)
(***************************************************************************)
RECURSIVE JoinChunks(_, _, _, _)
\* the loop of lines 374-379 from chunk i on, then new Blob(chunks)
JoinChunks(store, fileId, i, chunkCount) ==
  IF i >= chunkCount THEN [ok |-> TRUE, err |-> NoError, bytes |-> << >>]
  ELSE IF ChunkKey(fileId, i) \notin DOMAIN store
  THEN [ok |-> FALSE, err |-> "Missing chunk", bytes |-> << >>]
  ELSE LET rest == JoinChunks(store, fileId, i + 1, chunkCount)
       IN IF ~rest.ok THEN rest
          ELSE [rest EXCEPT !.bytes = Base64Decode(store[ChunkKey(fileId, i)].data) \o @]

\* a download that looks for the first chunk only
Download_FirstChunkOnly(md, store, blobs, fileId) ==
  IF fileId \notin Ids(md) THEN [ok |-> FALSE, err |-> "File not found", bytes |-> << >>]
  ELSE LET m == Get(md, fileId)
           present == IF m.storageMethod = "indexedDB" THEN fileId \in DOMAIN blobs
                      ELSE IF m.chunkCount > 1 THEN ChunkKey(fileId, 0) \in DOMAIN store
                      ELSE FileKey(fileId) \in DOMAIN store
       IN IF present THEN [ok |-> TRUE, err |-> NoError, bytes |-> << >>]
          ELSE [ok |-> FALSE,
                err |-> IF m.storageMethod # "indexedDB" /\ m.chunkCount > 1
                        THEN "Missing chunk" ELSE "File data not found",
                bytes |-> << >>]

\* what downloadFile(fileId) returns or throws in a state
Download(md, store, blobs, fileId) ==
  IF fileId \notin Ids(md) THEN [ok |-> FALSE, err |-> "File not found", bytes |-> << >>]
  ELSE LET m == Get(md, fileId)
       IN IF m.storageMethod = "indexedDB"
          THEN IF fileId \in DOMAIN blobs
               THEN [ok |-> TRUE, err |-> NoError, bytes |-> blobs[fileId]]
               ELSE [ok |-> FALSE, err |-> "File data not found", bytes |-> << >>]
          ELSE IF m.chunkCount > 1
          THEN JoinChunks(store, fileId, 0, m.chunkCount)
          ELSE IF FileKey(fileId) \in DOMAIN store
          THEN [ok |-> TRUE, err |-> NoError,
                bytes |-> Base64Decode(store[FileKey(fileId)].data)]
          ELSE [ok |-> FALSE, err |-> "File data not found", bytes |-> << >>]

\* the rejection of idb.getBlob (its request fails, part_000 line 48)
GetThrows == "IDBRequest error"

\* downloadFile: no throw is caught and nothing is logged before line 390
DownloadFile(fileId, requestedBy) ==
  /\ initialized /\ IsIdle
  /\ \E got \in Outcomes("get") :
       LET rejected == /\ ~got
                       /\ fileId \in Ids(metadata)
                       /\ Get(metadata, fileId).storageMethod = "indexedDB"
           d == IF rejected THEN [ok |-> FALSE, err |-> GetThrows, bytes |-> << >>]
                ELSE Download(metadata, ls, idb, fileId)
       IN /\ IF d.ok
             THEN activityLog' = LogActivity(activityLog, "download",
                                             Get(metadata, fileId).path, requestedBy,
                                             TRUE, NoError)
             ELSE UNCHANGED activityLog
          /\ ret' = Result("downloadFile", d.ok, d.err, fileId)
  /\ UNCHANGED <<metadata, initialized, ls, lsMeta, idb, now, nextId, up>>
  /\ UNCHANGED <<del, env>>

(***************************************************************************)
(* deleteFile.                                                             *)
(***************************************************************************)
DeleteFile(fileId, deletedBy) ==
  /\ initialized /\ IsIdle
  /\ IF fileId \notin Ids(metadata)
     THEN /\ ret' = Result("deleteFile", FALSE, "File not found", fileId)
          /\ UNCHANGED <<metadata, activityLog, ls, lsMeta, idb>>
     ELSE LET m == Get(metadata, fileId)
          IN \E delOk \in Outcomes("delete"), saved \in Outcomes("save") :
               /\ ls' = Remove(ls, RecordKeys(m))
               /\ idb' = IF m.storageMethod = "indexedDB"
                         THEN DeleteBlob(idb, fileId, delOk) ELSE idb
               /\ metadata' = MapDelete(metadata, {fileId})
               /\ IF saved
                  THEN /\ lsMeta' = <<SerializeMetadata(metadata')>>
                       /\ activityLog' = LogActivity(activityLog, "delete", m.path,
                                                     deletedBy, TRUE, NoError)
                       /\ ret' = Result("deleteFile", TRUE, NoError, fileId)
                  ELSE /\ ret' = Result("deleteFile", FALSE, SaveThrows, fileId)
                       /\ UNCHANGED <<activityLog, lsMeta>>
  /\ UNCHANGED <<initialized, now, nextId, up>>
  /\ UNCHANGED <<del, env>>

(***************************************************************************)
(* createDirectory, deleteDirectory.                                       *)
(***************************************************************************)
\* the record of lines 427-441; a directory has no storageMethod and no chunkCount
DirMetadata(dirId, normalizedPath, createdBy, date) ==
  [id |-> dirId,
   name |-> IF LastSegment(normalizedPath) = << >> THEN <<"a", "s", "s", "e", "t", "s">>
            ELSE LastSegment(normalizedPath),
   path |-> normalizedPath, type |-> "directory", size |-> 0,
   createdAt |-> date, modifiedAt |-> date, uploadedBy |-> createdBy,
   permissions |-> [read |-> {createdBy}, write |-> {createdBy}, delete |-> {createdBy}],
   storageMethod |-> "undefined", chunkCount |-> 0]

\* the check of lines 423, 459 and 494
PathAccepted(path) == StartsWith(path, ASSETS_ROOT)

CreateDirectory(path, createdBy) ==
  /\ initialized /\ IsIdle
  /\ IF ~PathAccepted(path)
     THEN /\ activityLog' = LogActivity(activityLog, "create_directory", path, createdBy,
                                         FALSE, "Path must start with /assets")
          /\ ret' = Result("createDirectory", FALSE, "Path must start with /assets", 0)
          /\ UNCHANGED <<metadata, lsMeta, nextId>>
     ELSE /\ nextId <= env.ids
          /\ nextId' = nextId + 1
          /\ LET normalizedPath == IF path = ASSETS_ROOT THEN ASSETS_ROOT
                                   ELSE StripTrailingSlash(path)
                 m == DirMetadata(nextId, normalizedPath, createdBy, now)
             IN /\ metadata' = Append(metadata, m)
                /\ \E saved \in Outcomes("save") :
                     IF saved
                     THEN /\ lsMeta' = <<SerializeMetadata(metadata')>>
                          /\ activityLog' = LogActivity(activityLog, "create_directory",
                                                        normalizedPath, createdBy, TRUE,
                                                        NoError)
                          /\ ret' = Result("createDirectory", TRUE, NoError, nextId)
                     ELSE /\ lsMeta' = lsMeta
                          /\ activityLog' = LogActivity(activityLog, "create_directory",
                                                        path, createdBy, FALSE, SaveThrows)
                          /\ ret' = Result("createDirectory", FALSE, SaveThrows, nextId)
  /\ UNCHANGED <<initialized, ls, idb, now, up>>
  /\ UNCHANGED <<del, env>>

\* a cascade by string prefix instead of path prefix
ItemsToDelete_StringPrefix(md, path) ==
  {md[i].id : i \in {j \in 1..Len(md) : StartsWith(md[j].path, path)}}

\* itemsToDelete of lines 462-467
ItemsToDelete(md, path) ==
  {md[i].id : i \in {j \in 1..Len(md) :
                       md[j].path = path \/ StartsWith(md[j].path, path \o <<"/">>)}}

DeleteDirectory(path, deletedBy) ==
  /\ initialized /\ IsIdle
  /\ IF ~PathAccepted(path) \/ path = ASSETS_ROOT
     THEN /\ ret' = Result("deleteDirectory", FALSE,
                           IF ~PathAccepted(path) THEN "Path must start with /assets"
                           ELSE "Cannot delete root directory", 0)
          /\ UNCHANGED <<metadata, activityLog, ls, lsMeta, idb>>
     ELSE LET items == ItemsToDelete(metadata, path)
              files == {id \in items : Get(metadata, id).type = "file"}
              blobIds == {id \in files : Get(metadata, id).storageMethod = "indexedDB"}
          IN \E kept \in (IF "delete" \in env.faults THEN SUBSET blobIds ELSE {{}}),
                saved \in Outcomes("save") :
               \* kept: the blobs whose deleteBlob failed
               /\ ls' = Remove(ls, UNION {RecordKeys(Get(metadata, id)) : id \in files})
               /\ idb' = Remove(idb, blobIds \ kept)
               /\ metadata' = MapDelete(metadata, items)
               /\ IF saved
                  THEN /\ lsMeta' = <<SerializeMetadata(metadata')>>
                       /\ activityLog' = LogActivity(activityLog, "delete_directory", path,
                                                     deletedBy, TRUE, NoError)
                       /\ ret' = Result("deleteDirectory", TRUE, NoError, 0)
                  ELSE /\ ret' = Result("deleteDirectory", FALSE, SaveThrows, 0)
                       /\ UNCHANGED <<activityLog, lsMeta>>
  /\ UNCHANGED <<initialized, now, nextId, up>>
  /\ UNCHANGED <<del, env>>

(***************************************************************************)
(* updateFilePermissions.                                                  *)
(***************************************************************************)
\* a check against the uploader instead of the write set
MayUpdatePermissions_Owner(m, updatedBy) == updatedBy = m.uploadedBy

\* the check of line 571
MayUpdatePermissions(m, updatedBy) == updatedBy \in m.permissions.write

\* the record with lines 573-574 applied
WithPermissions(md, fileId, permissions, date) ==
  [i \in 1..Len(md) |->
     IF md[i].id = fileId
     THEN [md[i] EXCEPT !.permissions = permissions, !.modifiedAt = date]
     ELSE md[i]]

UpdateFilePermissions(fileId, permissions, updatedBy) ==
  /\ initialized /\ IsIdle
  /\ IF fileId \notin Ids(metadata)
     THEN /\ ret' = Result("updateFilePermissions", FALSE, "File not found", fileId)
          /\ UNCHANGED <<metadata, activityLog, lsMeta>>
     ELSE IF ~MayUpdatePermissions(Get(metadata, fileId), updatedBy)
     THEN /\ ret' = Result("updateFilePermissions", FALSE, "Insufficient permissions", fileId)
          /\ UNCHANGED <<metadata, activityLog, lsMeta>>
     ELSE /\ metadata' = WithPermissions(metadata, fileId, permissions, now)
          /\ \E saved \in Outcomes("save") :
               IF saved
               THEN /\ lsMeta' = <<SerializeMetadata(metadata')>>
                    /\ activityLog' = LogActivity(activityLog, "update_permissions",
                                                  Get(metadata, fileId).path, updatedBy,
                                                  TRUE, NoError)
                    /\ ret' = Result("updateFilePermissions", TRUE, NoError, fileId)
               ELSE /\ ret' = Result("updateFilePermissions", FALSE, SaveThrows, fileId)
                    /\ UNCHANGED <<activityLog, lsMeta>>
  /\ UNCHANGED <<initialized, ls, idb, now, nextId, up>>
  /\ UNCHANGED <<del, env>>

(***************************************************************************)
(* clearAllData, and the queries listDirectory and getFolders.             *)
(***************************************************************************)
ClearAllData ==
  /\ initialized /\ IsIdle
  /\ ls' = Empty
  /\ lsMeta' = << >>
  /\ metadata' = << >>
  /\ activityLog' = LogActivity(<< >>, "clear_all", <<"/">>, "system", TRUE, NoError)
  /\ ret' = Result("clearAllData", TRUE, NoError, 0)
  /\ UNCHANGED <<initialized, idb, now, nextId, up>>
  /\ UNCHANGED <<del, env>>

\* listDirectory(path) throws (line 494)
ListDirectoryThrows(path) == ~PathAccepted(path)

RECURSIVE Ancestors(_)
\* the paths the while loop of lines 554-560 visits for a file path
Ancestors(currentPath) ==
  IF LastSlash(currentPath) > 1
  THEN LET parent == SubSeq(currentPath, 1, LastSlash(currentPath) - 1)
       IN (IF StartsWith(parent, ASSETS_ROOT) THEN {parent} ELSE {}) \cup Ancestors(parent)
  ELSE {}

\* the set `folders` of getFolders before it is sorted
GetFolders(md) ==
  {ASSETS_ROOT}
  \cup {md[i].path : i \in {j \in 1..Len(md) : md[j].type = "directory"}}
  \cup UNION {Ancestors(md[i].path) : i \in {j \in 1..Len(md) : md[j].type = "file"}}

\* the characters of the model's strings, in the order of their UTF-16 code
\* units (the order of Array.prototype.sort without a comparator)
CodeUnits == <<"/", "X", "a", "b", "e", "f", "m", "p", "s", "t">>

\* the same characters in the order String.prototype.localeCompare gives them
\* (punctuation, then letters alphabetically)
Collation == <<"/", "a", "b", "e", "f", "m", "p", "s", "t", "X">>

RECURSIVE StringLess(_, _, _)
\* s sorts before t, character by character in the given order; a proper
\* prefix sorts first
StringLess(s, t, order) ==
  IF t = << >> THEN FALSE
  ELSE IF s = << >> THEN TRUE
  ELSE IF Head(s) = Head(t) THEN StringLess(Tail(s), Tail(t), order)
  ELSE (CHOOSE i \in 1..Len(order) : order[i] = Head(s))
         < (CHOOSE i \in 1..Len(order) : order[i] = Head(t))

\* Array.from(folders).sort(): the strings of a Set, by code units
SortStrings(S) ==
  [k \in 1..Cardinality(S) |->
     CHOOSE x \in S : Cardinality({y \in S : StringLess(y, x, CodeUnits)}) = k - 1]

\* what getFolders() returns
GetFoldersSorted(md) == SortStrings(GetFolders(md))

\* getFolders(): a query, it changes nothing in the engine
GetFoldersQuery ==
  /\ initialized /\ IsIdle
  /\ ret' = Result("getFolders", TRUE, NoError, 0)
  /\ UNCHANGED <<metadata, activityLog, initialized, ls, lsMeta, idb, now, nextId, up>>
  /\ UNCHANGED <<del, env>>

\* a split that takes the last segment: relativePath.split('/').pop()
FirstSegment_Last(s) == LastSegment(s)

\* relativePath.split('/')[0]
FirstSegment(s) ==
  LET idx == {i \in 1..Len(s) : s[i] = "/"}
  IN IF idx = {} THEN s
     ELSE SubSeq(s, 1, (CHOOSE i \in idx : \A j \in idx : i <= j) - 1)

\* a directory entry has no size and no modifiedAt
NoValue == -1

RECURSIVE ListScan(_, _, _, _)
\* the loop of lines 499-520 from record i on; seen: the directory paths
\* already entered
ListScan(md, path, i, seen) ==
  IF i > Len(md) THEN << >>
  ELSE LET m == md[i]
       IN IF m.type = "file" /\ StartsWith(m.path, path \o <<"/">>)
          THEN LET fileDir == SubSeq(m.path, 1, LastSlash(m.path) - 1)
                   relativePath == SubSeq(fileDir, Len(path) + 2, Len(fileDir))
                   firstLevelDir == FirstSegment(relativePath)
                   dirPath == Join(path, firstLevelDir)
               IN IF fileDir = path
                  THEN <<[name |-> m.name, path |-> m.path, type |-> "file",
                          size |-> m.size, modifiedAt |-> m.modifiedAt]>>
                       \o ListScan(md, path, i + 1, seen)
                  ELSE IF dirPath \in seen
                  THEN ListScan(md, path, i + 1, seen)
                  ELSE <<[name |-> firstLevelDir, path |-> dirPath,
                          type |-> "directory", size |-> NoValue,
                          modifiedAt |-> NoValue]>>
                       \o ListScan(md, path, i + 1, seen \cup {dirPath})
          ELSE ListScan(md, path, i + 1, seen)

\* a comparator that puts the files first
EntryLess_FilesFirst(a, b) ==
  IF a.type = b.type THEN StringLess(a.name, b.name, Collation)
  ELSE a.type = "file"

\* the comparator of lines 522-524: directories first, then by name
EntryLess(a, b) ==
  IF a.type = b.type THEN StringLess(a.name, b.name, Collation)
  ELSE a.type = "directory"

\* entries.sort(comparator): Array.prototype.sort is stable
SortEntries(s) ==
  LET Before(j, i) == EntryLess(s[j], s[i]) \/ (~EntryLess(s[i], s[j]) /\ j < i)
      Rank(i) == 1 + Cardinality({j \in 1..Len(s) : Before(j, i)})
  IN [k \in 1..Len(s) |-> s[CHOOSE i \in 1..Len(s) : Rank(i) = k]]

\* what listDirectory(path) returns for a path it accepts
Listing(md, path) == SortEntries(ListScan(md, path, 1, {}))

\* listDirectory(path): a query, it changes nothing in the engine
ListDirectory(path) ==
  /\ initialized /\ IsIdle
  /\ ret' = IF ListDirectoryThrows(path)
            THEN Result("listDirectory", FALSE, "Path must start with /assets", 0)
            ELSE Result("listDirectory", TRUE, NoError, 0)
  /\ UNCHANGED <<metadata, activityLog, initialized, ls, lsMeta, idb, now, nextId, up>>
  /\ UNCHANGED <<del, env>>

(***************************************************************************)
(* The engine: each public operation runs from start to end before the     *)
(* next one starts.                                                        *)
(***************************************************************************)
FileIds == 1..env.ids

Next ==
  \/ Initialize
  \/ Tick
  \/ \E file \in env.files, path \in env.uploadPaths, uploadedBy \in env.users :
       UploadStart(file, path, uploadedBy)
  \/ UploadSingle
  \/ UploadSingleCleanup
  \/ UploadPutBlob
  \/ UploadChunk
  \/ UploadChunkRetry
  \/ UploadChunkCleanup
  \/ UploadRecord
  \/ \E fileId \in FileIds, u \in env.users : DownloadFile(fileId, u)
  \/ \E fileId \in FileIds, u \in env.users : DeleteFile(fileId, u)
  \/ \E path \in env.dirPaths, u \in env.users : CreateDirectory(path, u)
  \/ \E path \in env.dirPaths, u \in env.users : DeleteDirectory(path, u)
  \/ \E fileId \in FileIds, perms \in env.permissions, u \in env.users :
       UpdateFilePermissions(fileId, perms, u)
  \/ ClearAllData
  \/ \E path \in env.queries : ListDirectory(path)
  \/ GetFoldersQuery

AllFaults == {"write", "save", "put", "delete", "read", "get"}

\* uploads of every size on every write path with every store failure, by one
\* user to one destination
UploadInputs ==
  [files |-> Files, uploadPaths |-> {<<"a">>}, users |-> {"alice"},
   dirPaths |-> {Join(ASSETS_ROOT, <<"a">>)},
   permissions |-> {[read |-> {}, write |-> {"alice"}, delete |-> {}]},
   queries |-> {ASSETS_ROOT}, logEntries |-> SmallLog, ids |-> MaxIds,
   faults |-> AllFaults]

Init == InitEngine /\ env = UploadInputs

Spec == Init /\ [][Next]_vars

\* a single-chunk and a two-chunk file
TwoFiles ==
  {f \in Files : f.type = "text/plain" /\ Len(f.bytes) \in {1, CHUNK_SIZE_BYTES + 1}}

\* directory paths at, below, beside and outside the namespace root; the
\* primary store may be full and deletes in the secondary store may fail
TreeInputs ==
  [files |-> TwoFiles, uploadPaths |-> {<<"a">>, ASSETS_ROOT \o <<"X">>},
   users |-> {"alice"},
   dirPaths |-> {ASSETS_ROOT, Join(ASSETS_ROOT, <<"a">>), ASSETS_ROOT \o <<"X">>,
                 <<"/", "t", "m", "p">>},
   permissions |-> {[read |-> {}, write |-> {"alice"}, delete |-> {}]},
   queries |-> {ASSETS_ROOT}, logEntries |-> SmallLog, ids |-> MaxIds,
   faults |-> {"write", "delete"}]

InitTree == InitEngine /\ env = TreeInputs

SpecTree == InitTree /\ [][Next]_vars

\* two users and permission sets without the owner; the primary store may be full
AccessInputs ==
  [files |-> TwoFiles, uploadPaths |-> {<<"a">>}, users |-> Users,
   dirPaths |-> {Join(ASSETS_ROOT, <<"a">>)},
   permissions |-> {[read |-> Users, write |-> w, delete |-> {}] : w \in {{}, {"bob"}}},
   queries |-> {ASSETS_ROOT}, logEntries |-> SmallLog, ids |-> MaxIds,
   faults |-> {"write"}]

InitAccess == InitEngine /\ env = AccessInputs

SpecAccess == InitAccess /\ [][Next]_vars

\* nested destinations, one with a trailing slash, and listings of the root,
\* of a directory below it, of a path with a trailing slash and of a path
\* outside the namespace
ListInputs ==
  [files |-> TwoFiles,
   uploadPaths |-> {<<"a">>, <<"a", "/", "b">>, ASSETS_ROOT \o <<"/">>},
   users |-> {"alice"},
   dirPaths |-> {Join(ASSETS_ROOT, <<"a">>)},
   permissions |-> {[read |-> {}, write |-> {"alice"}, delete |-> {}]},
   queries |-> {ASSETS_ROOT, Join(ASSETS_ROOT, <<"a">>), ASSETS_ROOT \o <<"/">>,
                <<"/", "t", "m", "p">>},
   logEntries |-> SmallLog, ids |-> MaxIds,
   faults |-> {"write"}]

InitList == InitEngine /\ env = ListInputs

SpecList == InitList /\ [][Next]_vars

\* an activity log of several entries, filled by every operation that
\* appends to it
LogInputs ==
  [files |-> TwoFiles, uploadPaths |-> {<<"a">>}, users |-> {"alice"},
   dirPaths |-> {Join(ASSETS_ROOT, <<"a">>)},
   permissions |-> {[read |-> {}, write |-> {"alice"}, delete |-> {}]},
   queries |-> {ASSETS_ROOT}, logEntries |-> LargeLog, ids |-> MaxIds,
   faults |-> {"write"}]

InitLog == InitEngine /\ env = LogInputs

SpecLog == InitLog /\ [][Next]_vars

\* files on both sides of each validation: of the ceiling size and one byte
\* above it, with no type, an allowed type and a type outside the allow-list
EdgeFiles ==
  {[name |-> <<"f">>, type |-> t, bytes |-> Content(n)] :
     t \in {"", "text/plain", "application/zip"},
     n \in {MAX_FILE_SIZE_BYTES, MAX_FILE_SIZE_BYTES + 1}}
  \cup {[name |-> <<"f">>, type |-> t, bytes |-> Content(1)] :
          t \in {"", "application/zip"}}

ValidationInputs ==
  [files |-> EdgeFiles, uploadPaths |-> {<<"a">>}, users |-> {"alice"},
   dirPaths |-> {Join(ASSETS_ROOT, <<"a">>)},
   permissions |-> {[read |-> {}, write |-> {"alice"}, delete |-> {}]},
   queries |-> {ASSETS_ROOT}, logEntries |-> SmallLog, ids |-> MaxIds,
   faults |-> {"write"}]

InitValidation == InitEngine /\ env = ValidationInputs

SpecValidation == InitValidation /\ [][Next]_vars

\* accepted files of every size from 0 to the ceiling; the primary store may
\* be full
ChunkInputs ==
  [files |-> {f \in Files : /\ Len(f.bytes) <= MAX_FILE_SIZE_BYTES
                            /\ f.type \in {"", "text/plain"}},
   uploadPaths |-> {<<"a">>}, users |-> {"alice"},
   dirPaths |-> {Join(ASSETS_ROOT, <<"a">>)},
   permissions |-> {[read |-> {}, write |-> {"alice"}, delete |-> {}]},
   queries |-> {ASSETS_ROOT}, logEntries |-> SmallLog, ids |-> MaxIds,
   faults |-> {"write"}]

InitChunks == InitEngine /\ env = ChunkInputs

SpecChunks == InitChunks /\ [][Next]_vars

\* destinations written relative, with one and with two leading slashes,
\* already normalized, as "/", as the empty string and as the root's name
\* without its slash
PathInputs ==
  [files |-> TwoFiles,
   uploadPaths |-> {<<"a">>, <<"/", "a">>, <<"/", "/", "a">>, <<"/">>, << >>,
                    Tail(ASSETS_ROOT), Join(ASSETS_ROOT, <<"a">>)},
   users |-> {"alice"},
   dirPaths |-> {Join(ASSETS_ROOT, <<"a">>)},
   permissions |-> {[read |-> {}, write |-> {"alice"}, delete |-> {}]},
   queries |-> {ASSETS_ROOT}, logEntries |-> SmallLog, ids |-> MaxIds,
   faults |-> {"write"}]

InitPaths == InitEngine /\ env = PathInputs

SpecPaths == InitPaths /\ [][Next]_vars

\* the files an earlier session stored: one of a single byte and one of two
\* chunks, the last one short
OneByte == [name |-> <<"f">>, type |-> "text/plain", bytes |-> Content(1)]

TwoChunks ==
  [name |-> <<"f">>, type |-> "text/plain", bytes |-> Content(CHUNK_SIZE_BYTES + 1)]

\* the record an upload of `file` to 'a' by alice at time 0 has created
StoredRecord(id, file, method) ==
  UploadMetadata([id |-> id, file |-> file, user |-> "alice",
                  filePath |-> Join(NormalizePath(<<"a">>), file.name),
                  usedMethod |-> method,
                  chunkCount |-> ChunkCount(Len(file.bytes))], 0)

\* the keys that upload has written to the primary store, with their payloads
PrimaryData(id, file) ==
  LET n == ChunkCount(Len(file.bytes))
  IN IF n = 1
     THEN Put(Empty, FileKey(id),
              WholePayload(file, Join(NormalizePath(<<"a">>), file.name)))
     ELSE [k \in {ChunkKey(id, i) : i \in 0..(n - 1)} |-> ChunkPayload(file, k.chunk, n)]

Restrict(f, K) == [x \in K |-> f[x]]

\* one stored record of a tier, and any part of its data still in its store
LostData(file, method) ==
  LET r == StoredRecord(1, file, method)
  IN IF method = "indexedDB"
     THEN {[records |-> <<r>>, ls |-> Empty, idb |-> b] :
             b \in {Empty, Put(Empty, 1, file.bytes)}}
     ELSE {[records |-> <<r>>, ls |-> Restrict(PrimaryData(1, file), K), idb |-> Empty] :
             K \in SUBSET (DOMAIN PrimaryData(1, file))}

\* what the stores hold when the engine is constructed in a browser where an
\* earlier session has run: the snapshot of one record, unchunked, chunked or
\* in the secondary store, with all, some or none of its data left in the
\* stores (they are the browser's: the user and other scripts of the origin
\* can remove keys); or three files of a single byte, all in place
StoredWorlds ==
  LostData(OneByte, "localStorage") \cup LostData(TwoChunks, "localStorage")
  \cup LostData(TwoChunks, "indexedDB")
  \cup {[records |-> [i \in 1..3 |-> StoredRecord(i, OneByte, "localStorage")],
         ls |-> [k \in {FileKey(i) : i \in 1..3} |-> PrimaryData(k.id, OneByte)[k]],
         idb |-> Empty]}

\* an engine that finds the catalog of an earlier session and has one id
\* left to generate; the primary store may be full and reads of the
\* secondary store may fail
StoredInputs ==
  [files |-> {OneByte, TwoChunks}, uploadPaths |-> {<<"a">>}, users |-> {"alice"},
   dirPaths |-> {Join(ASSETS_ROOT, <<"a">>)},
   permissions |-> {[read |-> {}, write |-> {"alice"}, delete |-> {}]},
   queries |-> {ASSETS_ROOT}, logEntries |-> SmallLog, ids |-> ManyIds,
   faults |-> {"write", "get"}]

InitStored ==
  /\ env = StoredInputs
  /\ \E w \in StoredWorlds :
       /\ lsMeta = <<SerializeMetadata(w.records)>>
       /\ ls = w.ls
       /\ idb = w.idb
  /\ metadata = << >>
  /\ activityLog = << >>
  /\ initialized = FALSE
  /\ now = 0
  /\ nextId = env.ids
  /\ up = Idle
  /\ del = Idle
  /\ ret = [op |-> "none", ok |-> TRUE, err |-> NoError, id |-> 0]

SpecStored == InitStored /\ [][Next]_vars

\* a step of the uploadFile call in flight
UploadStep ==
  \/ UploadSingle
  \/ UploadSingleCleanup
  \/ UploadPutBlob
  \/ UploadChunk
  \/ UploadChunkRetry
  \/ UploadChunkCleanup
  \/ UploadRecord

\* the engine of SpecChunks where every store call returns: the promise an
\* upload awaits settles, and the event loop then runs its continuation
SpecChunksLive == InitChunks /\ [][Next]_vars /\ WF_vars(UploadStep)

(***************************************************************************)
(* Properties.                                                             *)
(***************************************************************************)
\* the keys of an id that the primary store holds
PrimaryKeys(store, id) == {k \in DOMAIN store : k.id = id}

\* a path that is the namespace root or lies below it
UnderRoot(path) == path = ASSETS_ROOT \/ StartsWith(path, ASSETS_ROOT \o <<"/">>)

\* C1: when uploadFile returns a record, downloadFile of its id in the state
\* the upload leaves returns the uploaded bytes, whatever the size and
\* whichever write path (unchunked primary, chunked primary, secondary) was taken.
C1_RoundTrip ==
  [][(up.pc = "record" /\ up'.pc = "idle" /\ ret'.ok)
       => LET d == Download(metadata', ls', idb', up.id)
          IN d.ok /\ d.bytes = up.file.bytes]_vars

\* an upload has returned a record stored as primary chunks, the last one short
C1_Witness ==
  /\ ret.op = "uploadFile" /\ ret.ok /\ ret.id \in Ids(metadata)
  /\ LET m == Get(metadata, ret.id)
     IN /\ m.storageMethod = "localStorage"
        /\ m.chunkCount > 1
        /\ m.size % CHUNK_SIZE_BYTES # 0
        /\ Download(metadata, ls, idb, ret.id).ok

\* C2: an upload that passed validation fails only when a secondary-store
\* write failed (or the file could not be read): failed primary-store writes
\* alone never make it fail.
C2_UploadSurvivesPrimaryFailures ==
  (ret.op = "uploadFile" /\ ~ret.ok)
    => ret.err \in {"Unsupported file type", "File exceeds 50MB limit",
                    "QuotaExceededError", "Failed to read blob"}

\* C3: once a multi-chunk upload has fallen back to the secondary store, no
\* chunk key of its id is left in the primary store, during the rest of the
\* call and when it has returned.
C3_NoChunksAfterFallback ==
  /\ (up.pc = "record" /\ up.chunkCount > 1 /\ up.usedMethod = "indexedDB")
       => \A j \in 0..(up.i - 1) : ChunkKey(up.id, j) \notin DOMAIN ls
  /\ (ret.op = "uploadFile" /\ ret.ok /\ ret.id \in Ids(metadata)
        /\ Get(metadata, ret.id).storageMethod = "indexedDB")
       => PrimaryKeys(ls, ret.id) = {}

\* chunk k > 0 could not be written, nothing could be evicted, and the file
\* is now in the secondary store
C3_Witness ==
  /\ up.pc = "record" /\ up.chunkCount > 1 /\ up.usedMethod = "indexedDB"
  /\ up.i > 0 /\ up.attempt > maxRetries
  /\ up.id \in DOMAIN idb

\* C4: after uploadFile ended with an error no key of the attempted id is in
\* the primary store.
C4_NoKeysAfterFailedUpload ==
  (ret.op = "uploadFile" /\ ~ret.ok) => PrimaryKeys(ls, ret.id) = {}

\* C5: after uploadFile ended with an error the catalog holds no record of
\* the attempted id.
C5_NoRecordAfterFailedUpload ==
  (ret.op = "uploadFile" /\ ~ret.ok) => ret.id \notin Ids(metadata)

\* C6: when deleteFile(id) returns, the record is gone and neither store
\* holds data of the id.
C6_DeleteFileRemovesAll ==
  [][\A fileId \in FileIds :
       ((\E u \in env.users : DeleteFile(fileId, u)) /\ ret'.ok)
         => /\ fileId \notin Ids(metadata')
            /\ PrimaryKeys(ls', fileId) = {}
            /\ fileId \notin DOMAIN idb']_vars

\* C7: when deleteDirectory(p) returns for a non-root p under the root, no
\* record at or below p is left, and neither store holds data of a removed file.
C7_DeleteDirectoryCascades ==
  [][\A path \in env.dirPaths :
       ((\E u \in env.users : DeleteDirectory(path, u)) /\ ret'.ok
          /\ UnderRoot(path) /\ path # ASSETS_ROOT)
         => /\ \A i \in 1..Len(metadata') :
                 /\ metadata'[i].path # path
                 /\ ~StartsWith(metadata'[i].path, path \o <<"/">>)
            /\ \A i \in 1..Len(metadata) :
                 (metadata[i].type = "file" /\ metadata[i].id \notin Ids(metadata'))
                   => /\ PrimaryKeys(ls', metadata[i].id) = {}
                      /\ metadata[i].id \notin DOMAIN idb']_vars

\* C8: deleteDirectory of the root or of a path that is not under the root
\* fails and changes neither the catalog nor a store.
C8_DeleteDirectoryRejects ==
  [][\A path \in env.dirPaths :
       ((\E u \in env.users : DeleteDirectory(path, u))
          /\ (path = ASSETS_ROOT \/ ~UnderRoot(path)))
         => /\ ~ret'.ok
            /\ metadata' = metadata /\ ls' = ls /\ idb' = idb
            /\ ASSETS_ROOT \in GetFolders(metadata')
            /\ ~ListDirectoryThrows(ASSETS_ROOT)]_vars

\* C9: updateFilePermissions by a user outside the record's write set throws
\* 'Insufficient permissions' and leaves the record as it was (permissions
\* and modifiedAt included).
C9_DeniedUpdateChangesNothing ==
  [][\A fileId \in FileIds, u \in env.users :
       (/\ fileId \in Ids(metadata)
        /\ u \notin Get(metadata, fileId).permissions.write
        /\ \E perms \in env.permissions : UpdateFilePermissions(fileId, perms, u))
         => /\ ret' = Result("updateFilePermissions", FALSE, "Insufficient permissions",
                             fileId)
            /\ fileId \in Ids(metadata')
            /\ Get(metadata', fileId) = Get(metadata, fileId)]_vars

\* the uploader of a file, removed from its write set by an earlier update,
\* has been denied at a later time
C9_Witness ==
  /\ ret = Result("updateFilePermissions", FALSE, "Insufficient permissions", ret.id)
  /\ ret.id \in Ids(metadata)
  /\ LET m == Get(metadata, ret.id)
     IN /\ m.uploadedBy \notin m.permissions.write
        /\ m.modifiedAt < now

\* C10: deleteFile by a user outside the record's delete set fails and leaves
\* the record and its data in place.
C10_DeleteFileChecksPermission ==
  [][\A fileId \in FileIds, u \in env.users :
       (/\ fileId \in Ids(metadata)
        /\ Get(metadata, fileId).type = "file"
        /\ u \notin Get(metadata, fileId).permissions.delete
        /\ DeleteFile(fileId, u))
         => /\ ~ret'.ok
            /\ metadata' = metadata /\ ls' = ls /\ idb' = idb]_vars

\* the entries of a listing, as a set
Entries(list) == {list[k] : k \in 1..Len(list)}

\* C11: for every file record and every proper ancestor d of its path that
\* lies strictly below an accepted query path q, listDirectory(q) holds a
\* directory entry for the first segment of d below q, whether or not a
\* directory was ever created.
C11_SyntheticDirectories ==
  \A q \in env.queries : \A i \in 1..Len(metadata) :
    LET p == metadata[i].path
        \* the "/" of p behind which an ancestor below q ends
        cuts == {k \in (Len(q) + 2)..Len(p) : p[k] = "/"}
    IN (PathAccepted(q) /\ metadata[i].type = "file"
          /\ StartsWith(p, q \o <<"/">>) /\ cuts # {})
         => LET first == CHOOSE k \in cuts : \A j \in cuts : k <= j
                segment == SubSeq(p, Len(q) + 2, first - 1)
            IN \E e \in Entries(Listing(metadata, q)) :
                 /\ e.type = "directory"
                 /\ e.name = segment
                 /\ e.path = q \o <<"/">> \o segment

\* a file was uploaded to /assets/a/b, no directory record exists, and the
\* listings of /assets and /assets/a show the directories a and b
C11_Witness ==
  /\ \E i \in 1..Len(metadata) :
       /\ metadata[i].type = "file"
       /\ metadata[i].path = ASSETS_ROOT \o <<"/", "a", "/", "b", "/", "f">>
  /\ \A i \in 1..Len(metadata) : metadata[i].type = "file"
  /\ \E e \in Entries(Listing(metadata, ASSETS_ROOT)) :
       e.type = "directory" /\ e.name = <<"a">>
  /\ \E e \in Entries(Listing(metadata, Join(ASSETS_ROOT, <<"a">>))) :
       e.type = "directory" /\ e.name = <<"b">>

\* C12: every entry of listDirectory(q) is an immediate child of q (its path
\* is q + '/' + name, name one non-empty segment), the file entries are
\* exactly the file records whose parent directory is q, and no two directory
\* entries have the same path.
C12_ListingImmediateChildren ==
  \A q \in env.queries :
    PathAccepted(q) =>
      LET list == Listing(metadata, q)
          children == {i \in 1..Len(metadata) :
                         /\ metadata[i].type = "file"
                         /\ LastSlash(metadata[i].path) > 0
                         /\ SubSeq(metadata[i].path, 1,
                                   LastSlash(metadata[i].path) - 1) = q}
      IN /\ \A e \in Entries(list) :
              /\ e.name # << >>
              /\ \A k \in 1..Len(e.name) : e.name[k] # "/"
              /\ e.path = q \o <<"/">> \o e.name
         /\ Cardinality({k \in 1..Len(list) : list[k].type = "file"})
              = Cardinality(children)
         /\ \A i \in children :
              \E e \in Entries(list) : e.type = "file" /\ e.path = metadata[i].path
         /\ \A k, l \in 1..Len(list) :
              (list[k].type = "directory" /\ list[l].type = "directory"
                 /\ list[k].path = list[l].path) => k = l

\* the proper prefixes of a path that end before one of its "/"
Prefixes(p) == {SubSeq(p, 1, k - 1) : k \in {j \in 2..Len(p) : p[j] = "/"}}

\* C13: getFolders returns exactly the root, the paths of the directory
\* records and the ancestors of the file records that are not above the
\* root, sorted and without duplicates, and nothing outside the namespace root.
C13_FoldersExact ==
  LET list == GetFoldersSorted(metadata)
      dirs == {metadata[i].path :
                 i \in {j \in 1..Len(metadata) : metadata[j].type = "directory"}}
      ancestors == UNION {{d \in Prefixes(metadata[i].path) : UnderRoot(d)} :
                            i \in {j \in 1..Len(metadata) : metadata[j].type = "file"}}
  IN /\ Entries(list) = {ASSETS_ROOT} \cup dirs \cup ancestors
     /\ \A k \in 1..(Len(list) - 1) : StringLess(list[k], list[k + 1], CodeUnits)
     /\ \A k \in 1..Len(list) : UnderRoot(list[k])

\* the last n entries of a sequence, all of it when it has fewer
MostRecent(s, n) == IF Len(s) > n THEN SubSeq(s, Len(s) - n + 1, Len(s)) ELSE s

\* the step appended the last k entries of the new log to `base`, and the
\* new log is the most recent MAX_LOG_ENTRIES entries of the result
Appended(base, k) ==
  /\ k <= Len(activityLog')
  /\ activityLog' =
       MostRecent(base \o SubSeq(activityLog', Len(activityLog') - k + 1,
                                 Len(activityLog')),
                  MAX_LOG_ENTRIES)

\* C14: the activity log never holds more than MAX_LOG_ENTRIES entries, and
\* every operation leaves in it the most recent entries of the old log
\* followed by the entries it appended, in append order: one entry for
\* initialize, a failed upload, a download, a delete, a directory creation, a
\* directory deletion and a permission update, two for a successful upload,
\* and one on an emptied log for clearAllData.
C14_LogKeepsMostRecent ==
  /\ [](Len(activityLog) <= MAX_LOG_ENTRIES)
  /\ [][/\ \E k \in 0..2 : Appended(activityLog, k) \/ Appended(<< >>, k)
        /\ Initialize => Appended(activityLog, 1)
        /\ (up.pc = "record" /\ UploadRecord) => Appended(activityLog, 2)
        /\ (ret'.op = "uploadFile" /\ ~ret'.ok /\ ret' # ret)
             => Appended(activityLog, 1)
        /\ (\E fileId \in FileIds, u \in env.users :
              DownloadFile(fileId, u) /\ ret'.ok) => Appended(activityLog, 1)
        /\ (\E fileId \in FileIds, u \in env.users :
              DeleteFile(fileId, u) /\ ret'.ok) => Appended(activityLog, 1)
        /\ (\E path \in env.dirPaths, u \in env.users :
              CreateDirectory(path, u)) => Appended(activityLog, 1)
        /\ (\E path \in env.dirPaths, u \in env.users :
              DeleteDirectory(path, u) /\ ret'.ok) => Appended(activityLog, 1)
        /\ (\E fileId \in FileIds, perms \in env.permissions, u \in env.users :
              UpdateFilePermissions(fileId, perms, u) /\ ret'.ok)
             => Appended(activityLog, 1)
        /\ ClearAllData => Appended(<< >>, 1)]_vars

\* the log is full and holds neither the entry of initialize nor one of
\* clearAllData: more entries than it keeps were appended, the oldest are gone
C14_Witness ==
  /\ Len(activityLog) = MAX_LOG_ENTRIES
  /\ MAX_LOG_ENTRIES > 1
  /\ \A k \in 1..Len(activityLog) :
       activityLog[k].action \notin {"system_init", "clear_all"}
  /\ activityLog[Len(activityLog)].action = "download"

\* C15: uploadFile rejects a file exactly when its type is non-empty and
\* outside the allow-list or its size is above the ceiling, and a rejected
\* upload leaves the catalog, its snapshot and both stores as they were.
C15_RejectionIsExactAndClean ==
  [][\A file \in env.files, path \in env.uploadPaths, u \in env.users :
       UploadStart(file, path, u)
         => LET refused == \/ (file.type # "" /\ file.type \notin ALLOWED_MIME_TYPES)
                           \/ Len(file.bytes) > MAX_FILE_SIZE_BYTES
            IN /\ refused <=> (up'.pc = "idle" /\ ret'.op = "uploadFile" /\ ~ret'.ok)
               /\ ~refused <=> (up'.pc # "idle" /\ up'.file = file)
               /\ refused => /\ metadata' = metadata
                              /\ lsMeta' = lsMeta
                              /\ ls' = ls
                              /\ idb' = idb]_vars

\* a file of the ceiling size with no type was accepted and is stored, and an
\* upload after it was refused for its size
C15_Witness ==
  /\ \E i \in 1..Len(metadata) :
       /\ metadata[i].type = "file"
       /\ metadata[i].size = MAX_FILE_SIZE_BYTES
       /\ ChunkKey(metadata[i].id, 0) \in DOMAIN ls
       /\ ls[ChunkKey(metadata[i].id, 0)].type = ""
       /\ Download(metadata, ls, idb, metadata[i].id).ok
  /\ ret = Result("uploadFile", FALSE, "File exceeds 50MB limit", 0)

\* the bytes a chunk key of the primary store holds
StoredChunk(store, id, i) == Base64Decode(store[ChunkKey(id, i)].data)

RECURSIVE Concatenated(_, _, _, _)
\* the bytes of chunks i..n-1 of an id, in index order
Concatenated(store, id, i, n) ==
  IF i >= n THEN << >>
  ELSE StoredChunk(store, id, i) \o Concatenated(store, id, i + 1, n)

\* C16: a step of a multi-chunk upload that writes chunk i writes the bytes
\* [i*chunkSize, min((i+1)*chunkSize, size)) of the file: chunkSize bytes for
\* every chunk but the last, never none; and when the upload returns a record
\* kept in the primary store, its chunks 0..chunkCount-1 concatenated in index
\* order are the file's bytes.
C16_ChunksPartitionFile ==
  [][/\ (up.pc \in {"chunk", "chunk_retry"}
           /\ ChunkKey(up.id, up.i) \in DOMAIN ls')
          => LET size == Len(up.file.bytes)
                 lo == up.i * CHUNK_SIZE_BYTES
                 hi == IF lo + CHUNK_SIZE_BYTES < size THEN lo + CHUNK_SIZE_BYTES
                       ELSE size
                 chunk == StoredChunk(ls', up.id, up.i)
             IN /\ chunk = [k \in 1..(hi - lo) |-> up.file.bytes[lo + k]]
                /\ Len(chunk) > 0
                /\ (up.i < up.chunkCount - 1) => Len(chunk) = CHUNK_SIZE_BYTES
    /\ (up.pc = "record" /\ up.chunkCount > 1 /\ up.usedMethod = "localStorage"
           /\ up'.pc = "idle" /\ ret'.ok)
          => /\ Get(metadata', up.id).chunkCount = up.chunkCount
             /\ Concatenated(ls', up.id, 0, up.chunkCount) = up.file.bytes]_vars

\* every chunk of a file whose last chunk is short is in the primary store
C16_Witness ==
  /\ up.pc = "record" /\ up.usedMethod = "localStorage"
  /\ up.chunkCount = MaxChunks
  /\ Len(up.file.bytes) = MAX_FILE_SIZE_BYTES - 1
  /\ \A i \in 0..(up.chunkCount - 1) : ChunkKey(up.id, i) \in DOMAIN ls

\* C17: the chunk count of an accepted upload is the least n >= 1 with
\* n * chunkSize >= size (1 up to chunkSize, size / chunkSize for a multiple
\* of chunkSize), and the chunked write path is taken exactly when
\* size > chunkSize.
C17_ChunkCountIsCeiling ==
  [][\A file \in env.files, path \in env.uploadPaths, u \in env.users :
       (UploadStart(file, path, u) /\ up'.pc # "idle")
         => LET size == Len(file.bytes)
                n == up'.chunkCount
            IN /\ n >= 1
               /\ n * CHUNK_SIZE_BYTES >= size
               /\ n > 1 => (n - 1) * CHUNK_SIZE_BYTES < size
               /\ size <= CHUNK_SIZE_BYTES => n = 1
               /\ (size > 0 /\ size % CHUNK_SIZE_BYTES = 0)
                    => n * CHUNK_SIZE_BYTES = size
               /\ (up'.pc = "chunk") <=> (size > CHUNK_SIZE_BYTES)
               /\ (up'.pc = "single") <=> (size <= CHUNK_SIZE_BYTES)]_vars

\* an upload of a whole number of chunks, more than one, is on the chunked
\* path after an empty file was stored under one key
C17_Witness ==
  /\ up.pc = "chunk"
  /\ Len(up.file.bytes) = MaxChunks * CHUNK_SIZE_BYTES
  /\ up.chunkCount = MaxChunks
  /\ \E i \in 1..Len(metadata) :
       /\ metadata[i].type = "file" /\ metadata[i].size = 0
       /\ metadata[i].chunkCount = 1

\* what an accepted first step of uploadFile says about the normalization of
\* its destination: the directory it stores under is a fixed point, '/' gives
\* the root, and a destination in `insensitive` gives root + '/' + destination
\* with or without a leading slash
NormalizationHolds(file, path, insensitive) ==
  LET dir == SubSeq(up'.filePath, 1, Len(up'.filePath) - Len(file.name) - 1)
      relative == StripLeadingSlashes(path)
  IN /\ up'.filePath = dir \o <<"/">> \o file.name
     /\ NormalizePath(dir) = dir
     /\ path = <<"/">> => dir = ASSETS_ROOT
     /\ (path # <<"/">> /\ ~StartsWith(path, ASSETS_ROOT) /\ insensitive)
          => /\ dir = ASSETS_ROOT \o <<"/">> \o relative
             /\ NormalizePath(relative) = dir
             /\ NormalizePath(<<"/">> \o relative) = dir

\* C18 (as stated): normalization is idempotent, '/' gives the root, and
\* every destination normalizes to the same path with and without a leading
\* slash.
C18_SlashInsensitiveAlways ==
  [][\A file \in env.files, path \in env.uploadPaths, u \in env.users :
       (UploadStart(file, path, u) /\ up'.pc # "idle")
         => NormalizationHolds(file, path, TRUE)]_vars

\* C18 (amended): normalization is idempotent, '/' gives the root, and a
\* destination that is not empty and does not begin with the root's name
\* normalizes to root + '/' + destination with and without leading slashes.
C18_NormalizationIdempotent ==
  [][\A file \in env.files, path \in env.uploadPaths, u \in env.users :
       (UploadStart(file, path, u) /\ up'.pc # "idle")
         => NormalizationHolds(file, path,
              /\ StripLeadingSlashes(path) # << >>
              /\ ~StartsWith(<<"/">> \o StripLeadingSlashes(path), ASSETS_ROOT))]_vars

\* an upload to '/a' is under way in /assets/a, where a file uploaded
\* earlier is already stored
C18_Witness ==
  /\ up.pc # "idle"
  /\ up.path = <<"/", "a">>
  /\ up.filePath = ASSETS_ROOT \o <<"/", "a", "/">> \o up.file.name
  /\ \E i \in 1..Len(metadata) : metadata[i].path = up.filePath

\* C19: no two file records of the catalog have the same path.
C19_FilePathsUnique ==
  \A i, j \in 1..Len(metadata) :
    (metadata[i].type = "file" /\ metadata[j].type = "file"
       /\ metadata[i].path = metadata[j].path) => i = j

\* C20: the path of every record of the catalog is the namespace root or
\* begins with root + '/'.
C20_RecordsUnderRoot ==
  \A i \in 1..Len(metadata) : UnderRoot(metadata[i].path)

FailureLogged(user, error) ==
  /\ Appended(activityLog, 1)
  /\ LET entry == activityLog'[Len(activityLog')]
     IN ~entry.success /\ entry.user = user /\ entry.error = error

\* C22: every public operation that ends with an error has appended, when
\* the error reaches the caller, an activity entry with success = false that
\* carries the acting user and the error detail, and the attempted path where
\* the call names one.
C22_FailuresAreLogged ==
  [][/\ \A fileId \in FileIds, u \in env.users :
          (DownloadFile(fileId, u) /\ ~ret'.ok) => FailureLogged(u, ret'.err)
     /\ \A fileId \in FileIds, u \in env.users :
          (DeleteFile(fileId, u) /\ ~ret'.ok) => FailureLogged(u, ret'.err)
     /\ \A path \in env.dirPaths, u \in env.users :
          (DeleteDirectory(path, u) /\ ~ret'.ok)
            => /\ FailureLogged(u, ret'.err)
               /\ activityLog'[Len(activityLog')].path = path
     /\ \A fileId \in FileIds, perms \in env.permissions, u \in env.users :
          (UpdateFilePermissions(fileId, perms, u) /\ ~ret'.ok)
            => FailureLogged(u, ret'.err)
     /\ \A path \in env.dirPaths, u \in env.users :
          (CreateDirectory(path, u) /\ ~ret'.ok)
            => /\ FailureLogged(u, ret'.err)
               /\ activityLog'[Len(activityLog')].path = path
     /\ \A file \in env.files, path \in env.uploadPaths, u \in env.users :
          (UploadStart(file, path, u) /\ up'.pc = "idle")
            => /\ FailureLogged(u, ret'.err)
               /\ activityLog'[Len(activityLog')].path = Join(path, file.name)
     /\ (up.pc # "idle" /\ up'.pc = "idle" /\ ~ret'.ok)
          => /\ FailureLogged(up.user, ret'.err)
             /\ activityLog'[Len(activityLog')].path = Join(up.path, up.file.name)]_vars

\* C23: the chunkCount of the record uploadFile returns is the number of
\* chunk keys of its id in the primary store, and it is 0 when the file is
\* in the secondary store and when it is under the unchunked key.
C23_ChunkCountIsKeysWritten ==
  [][(up.pc = "record" /\ up'.pc = "idle" /\ ret'.ok)
       => LET m == metadata'[Len(metadata')]
              chunkKeys == {k \in DOMAIN ls' : k.id = up.id /\ k.chunk >= 0}
          IN /\ m.id = up.id
             /\ m.chunkCount = Cardinality(chunkKeys)
             /\ m.storageMethod = "indexedDB" => m.chunkCount = 0
             /\ [id |-> up.id, chunk |-> -1] \in DOMAIN ls' => m.chunkCount = 0]_vars

\* the keys and blobs of an id that the two stores hold
DataOf(store, blobs, id) ==
  {k \in DOMAIN store : k.id = id} \cup {b \in DOMAIN blobs : b = id}

\* C24: within one upload a step reports progress exactly when it has
\* written a chunk, the whole file or the blob, and then once; the bytes
\* reported never decrease and never exceed the size of the file; the chunk
\* indices of the reports of primary writes increase strictly; and when the
\* upload returns its record the last report has all the bytes of the file
\* and names the storage method of the record.
C24_ProgressMonotonic ==
  [][/\ (up.pc # "idle" /\ up'.pc # "idle")
          => LET written == DataOf(ls', idb', up.id) \ DataOf(ls, idb, up.id)
             IN /\ written # {} => Len(up'.progress) = Len(up.progress) + 1
                /\ written = {} => up'.progress = up.progress
                /\ Cardinality(written) <= 1
                /\ SubSeq(up'.progress, 1, Len(up.progress)) = up.progress
     /\ up'.pc # "idle"
          => LET reports == up'.progress
                 total == Len(up'.file.bytes)
             IN /\ \A k \in 1..Len(reports) :
                     reports[k].loadedBytes >= 0 /\ reports[k].loadedBytes <= total
                /\ \A k \in 1..(Len(reports) - 1) :
                     reports[k].loadedBytes <= reports[k + 1].loadedBytes
                /\ \A k, l \in 1..Len(reports) :
                     (k < l /\ reports[k].method = "localStorage"
                        /\ reports[l].method = "localStorage")
                       => reports[k].chunkIndex < reports[l].chunkIndex
     /\ (up.pc = "record" /\ up'.pc = "idle" /\ ret'.ok)
          => /\ up.progress # << >>
             /\ up.progress[Len(up.progress)].loadedBytes = Len(up.file.bytes)
             /\ up.progress[Len(up.progress)].method
                  = metadata'[Len(metadata')].storageMethod]_vars

\* the first chunk of a file was written to the primary store and reported,
\* then the file went to the secondary store and was reported whole
C24_Witness ==
  /\ up.pc = "record"
  /\ Len(up.progress) = 2
  /\ up.progress[1] = Progress(CHUNK_SIZE_BYTES, 0, "localStorage")
  /\ up.progress[2] = Progress(Len(up.file.bytes), 1, "indexedDB")
  /\ Len(up.file.bytes) > CHUNK_SIZE_BYTES

\* C25: in the list listDirectory returns no file entry comes before a
\* directory entry, and of two entries of the same kind the later one does
\* not sort before the earlier one by name (in the order of localeCompare).
C25_ListingOrder ==
  \A q \in env.queries :
    PathAccepted(q) =>
      LET list == Listing(metadata, q)
      IN \A k, l \in 1..Len(list) :
           k < l
             => /\ ~(list[k].type = "file" /\ list[l].type = "directory")
                /\ list[k].type = list[l].type
                     => ~StringLess(list[l].name, list[k].name, Collation)

\* listDirectory has returned; the catalog holds a file of /assets/a before
\* a file of /assets/a/b, so that the scan of /assets/a meets the file entry
\* before the directory entry
C25_Witness ==
  /\ ret = Result("listDirectory", TRUE, NoError, 0)
  /\ LET scanned == ListScan(metadata, Join(ASSETS_ROOT, <<"a">>), 1, {})
     IN /\ Len(scanned) >= 2
        /\ scanned[1].type = "file"
        /\ scanned[2].type = "directory"

\* C26: in a multi-chunk upload no chunk is written to the primary store
\* more than 1 + maxRetries times, and no more than maxRetries files are
\* evicted for one chunk.
C26_ChunkRetriesBounded ==
  (up.pc # "idle" /\ up.chunkCount > 1)
    => /\ up.writes <= 1 + maxRetries
       /\ up.evicted <= maxRetries

\* the file records of a catalog other than the one of an id
OtherFiles(md, id) == {i \in 1..Len(md) : md[i].type = "file" /\ md[i].id # id}

\* C27: a single-chunk upload writes to the primary store at most twice and
\* evicts at most once; it writes a second time only after the first write
\* failed and a file was evicted; it puts the blob into the secondary store
\* only when the first write failed and there was no file to evict, or when
\* the write after the eviction failed too; and never when its key is in the
\* primary store.
C27_SingleChunkAttempts ==
  [][(up'.pc # "idle" /\ up'.chunkCount = 1)
       => /\ up'.writes <= 2
          /\ up'.evicted <= 1
          /\ up'.writes = 2 => up'.evicted = 1
          /\ up.pc # "idle"
               => /\ up'.writes >= up.writes /\ up'.evicted >= up.evicted
                  /\ (up'.evicted = up.evicted + 1)
                       <=> (Len(metadata') = Len(metadata) - 1)
                  /\ up'.evicted = up.evicted => metadata' = metadata
                  /\ ([id |-> up.id, chunk |-> -1] \in DOMAIN ls' \ DOMAIN ls)
                       => up'.writes = up.writes + 1
                  /\ (up'.writes = 2 /\ up.writes = 1)
                       => /\ [id |-> up.id, chunk |-> -1] \notin DOMAIN ls
                          /\ up'.evicted = up.evicted + 1
                  /\ (up.id \in DOMAIN idb' \ DOMAIN idb)
                       => /\ [id |-> up.id, chunk |-> -1] \notin DOMAIN ls'
                          /\ \/ (up.writes = 1 /\ up.evicted = 0
                                   /\ OtherFiles(metadata, up.id) = {})
                             \/ (up.writes = 2 /\ up.evicted = 1)]_vars

\* the first write failed, a file was evicted, the second write failed too,
\* and the file is now in the secondary store
C27_Witness ==
  /\ up.pc = "record" /\ up.chunkCount = 1
  /\ up.usedMethod = "indexedDB"
  /\ up.writes = 2 /\ up.evicted = 1
  /\ up.id \in DOMAIN idb
  /\ metadata = << >>

\* C28: a call of cleanupOldFiles by the upload in flight removes exactly one
\* record, a file record other than the one in progress with the smallest
\* createdAt, of whichever storage method, and with it every key of its id in
\* the primary store and its blob in the secondary store; directory records
\* stay; and when there is no such file record it changes nothing.
C28_EvictsOldestWithData ==
  [][(up.pc \in {"single_cleanup", "chunk_cleanup"} /\ up' # up)
       => LET others == OtherFiles(metadata, up.id)
          IN IF others = {}
             THEN /\ metadata' = metadata
                  /\ idb' = idb
                  /\ \A k \in DOMAIN ls : k.id # up.id => k \in DOMAIN ls'
             ELSE \E i \in others :
                    /\ \A j \in others : metadata[i].createdAt <= metadata[j].createdAt
                    /\ Len(metadata') = Len(metadata) - 1
                    /\ Ids(metadata') = Ids(metadata) \ {metadata[i].id}
                    /\ \A j \in 1..Len(metadata) :
                         metadata[j].type = "directory"
                           => \E l \in 1..Len(metadata') : metadata'[l] = metadata[j]
                    /\ \A k \in DOMAIN ls' : k.id # metadata[i].id
                    /\ metadata[i].id \notin DOMAIN idb']_vars

\* C29: every uploadFile call that has generated its id ends, with its
\* record or with an error, when every store call returns.
C29_UploadTerminates ==
  \A id \in 1..MaxIds :
    (up.pc # "idle" /\ up.id = id)
      ~> (up.pc = "idle" /\ ret.op = "uploadFile" /\ ret.id = id)

\* the primary store has refused the same chunk until the retry budget was
\* spent, with no file left to evict
C29_Witness ==
  /\ up.pc = "putblob" /\ up.chunkCount > 1
  /\ up.attempt = maxRetries + 1
  /\ up.writes = maxRetries + 2
  /\ up.evicted = 1
  /\ metadata = << >>

\* C30: whenever no operation is in progress, every file record of the
\* catalog has its data: a record of the secondary store has chunkCount 0 and
\* a blob under its id; a record of the primary store with chunkCount > 1 has
\* every chunk key 0..chunkCount-1; a record of the primary store with
\* chunkCount <= 1 has its unchunked key.
C30_RecordsBacked ==
  up.pc = "idle"
    => \A i \in 1..Len(metadata) :
         metadata[i].type = "file"
           => LET m == metadata[i]
              IN /\ m.storageMethod \in {"localStorage", "indexedDB"}
                 /\ m.storageMethod = "indexedDB"
                      => m.chunkCount = 0 /\ m.id \in DOMAIN idb
                 /\ (m.storageMethod = "localStorage" /\ m.chunkCount > 1)
                      => \A j \in 0..(m.chunkCount - 1) :
                           [id |-> m.id, chunk |-> j] \in DOMAIN ls
                 /\ (m.storageMethod = "localStorage" /\ m.chunkCount <= 1)
                      => [id |-> m.id, chunk |-> -1] \in DOMAIN ls

\* the second upload has returned a record of a file of several chunks that
\* went to the secondary store after the primary store had refused a chunk;
\* the file uploaded before it is no longer in the catalog
C30_Witness ==
  /\ ret = Result("uploadFile", TRUE, NoError, MaxIds)
  /\ Ids(metadata) = {MaxIds}
  /\ LET m == Get(metadata, MaxIds)
     IN /\ m.storageMethod = "indexedDB"
        /\ m.size > CHUNK_SIZE_BYTES
        /\ m.id \in DOMAIN idb
        /\ idb[m.id] = Content(m.size)
  /\ DOMAIN ls = {}

\* C32: a record that a step leaves in the catalog keeps its id, name, path,
\* kind, size, owner and createdAt; its permissions or modifiedAt differ after
\* the step only when the step is an updateFilePermissions of its id that
\* returns, and then the permissions are the ones supplied and modifiedAt has
\* not decreased.
C32_RecordsImmutable ==
  [][\A i \in 1..Len(metadata), j \in 1..Len(metadata') :
       metadata[i].id = metadata'[j].id
         => LET a == metadata[i]
                b == metadata'[j]
            IN /\ a.name = b.name /\ a.path = b.path /\ a.type = b.type
               /\ a.size = b.size /\ a.uploadedBy = b.uploadedBy
               /\ a.createdAt = b.createdAt
               /\ (a.permissions # b.permissions \/ a.modifiedAt # b.modifiedAt)
                    => /\ \E perms \in env.permissions, u \in env.users :
                            /\ UpdateFilePermissions(a.id, perms, u)
                            /\ b.permissions = perms
                       /\ ret'.ok
                       /\ b.modifiedAt >= a.modifiedAt]_vars

\* C33: a createDirectory of a path that is the root or lies under it returns
\* without error, whatever the catalog already holds at that path, and appends
\* one directory record of size 0 whose three permission sets hold only the
\* creator; every other record and both stores are left as they were.
C33_CreateDirectoryFrame ==
  [][\A path \in env.dirPaths, u \in env.users :
       (/\ CreateDirectory(path, u)
        /\ (path = ASSETS_ROOT \/ StartsWith(path, ASSETS_ROOT \o <<"/">>)))
         => /\ ret'.ok
            /\ Len(metadata') = Len(metadata) + 1
            /\ SubSeq(metadata', 1, Len(metadata)) = metadata
            /\ LET d == metadata'[Len(metadata')]
               IN /\ d.type = "directory" /\ d.size = 0
                  /\ d.id \notin Ids(metadata)
                  /\ d.permissions = [read |-> {u}, write |-> {u}, delete |-> {u}]
            /\ ls' = ls /\ idb' = idb]_vars

(***************************************************************************)
(* Sibling directories: /assets/ab beside /assets/a, with files in both.   *)
(***************************************************************************)
SiblingInputs ==
  [files |-> TwoFiles, uploadPaths |-> {<<"a">>, <<"a", "b">>},
   users |-> {"alice"},
   dirPaths |-> {Join(ASSETS_ROOT, <<"a">>), Join(ASSETS_ROOT, <<"a", "b">>)},
   permissions |-> {[read |-> {}, write |-> {"alice"}, delete |-> {}]},
   queries |-> {ASSETS_ROOT}, logEntries |-> LargeLog, ids |-> MaxIds,
   faults |-> {"write"}]

InitSiblings == InitEngine /\ env = SiblingInputs

SpecSiblings == InitSiblings /\ [][Next]_vars

\* C34: deleteDirectory(p) leaves in the catalog, unchanged, every record whose
\* path is neither p nor begins with p + '/', and leaves the keys of such a
\* record in localStorage and its blob in IndexedDB as they were.
C34_DeleteDirectoryFrame ==
  [][\A p \in env.dirPaths, u \in env.users :
       DeleteDirectory(p, u)
         => \A i \in 1..Len(metadata) :
              LET r == metadata[i]
              IN (r.path # p /\ ~StartsWith(r.path, p \o <<"/">>))
                   => /\ \E j \in 1..Len(metadata') : metadata'[j] = r
                      /\ r.type = "file"
                           => /\ \A k \in RecordKeys(r) \cap DOMAIN ls :
                                   k \in DOMAIN ls' /\ ls'[k] = ls[k]
                              /\ r.id \in DOMAIN idb
                                   => r.id \in DOMAIN idb' /\ idb'[r.id] = idb[r.id]]_vars

\* C34 witness: deleteDirectory('/assets/a') removed the second file, whose
\* upload to /assets/a is the log entry before it, and the first file, at
\* /assets/ab, is still in the catalog.
C34_Witness ==
  /\ ret.op = "deleteDirectory" /\ ret.ok
  /\ nextId = 3
  /\ Len(activityLog) = 3
  /\ activityLog[1].action = "upload" /\ activityLog[1].success
  /\ activityLog[1].path = Join(Join(ASSETS_ROOT, <<"a">>), <<"f">>)
  /\ activityLog[2].action = "upload_perf"
  /\ activityLog[3].action = "delete_directory"
  /\ activityLog[3].path = Join(ASSETS_ROOT, <<"a">>)
  /\ Len(metadata) = 1 /\ metadata[1].id = 1
  /\ metadata[1].path = Join(Join(ASSETS_ROOT, <<"a", "b">>), <<"f">>)

\* C37: when clearAllData has completed the catalog is empty, the activity log
\* holds the 'clear_all' entry and nothing else, localStorage holds no file or
\* chunk key and IndexedDB holds no blob.
C37_ClearRemovesAllData ==
  [][ClearAllData
       => /\ metadata' = << >>
          /\ Len(activityLog') = 1 /\ activityLog'[1].action = "clear_all"
          /\ DOMAIN ls' = {}
          /\ DOMAIN idb' = {}]_vars

\* C36: whenever no operation is in progress, the snapshot persisted under
\* METADATA_KEY decodes to the in-memory catalog: an absent snapshot stands
\* for the empty catalog, as loadMetadata reads it.
C36_SnapshotIsCatalog ==
  (initialized /\ IsIdle)
    => IF lsMeta = << >> THEN metadata = << >>
       ELSE ParseMetadata(lsMeta[1]) = metadata

\* C35: an upload in which no setItem has thrown leaves the catalog, the
\* snapshot, IndexedDB and every key localStorage already held as they were,
\* step by step, and no step writes anything before the first setItem throws;
\* when such an upload returns, the catalog has grown by the record of the
\* upload, stored in localStorage, and by nothing else, and both stores are as
\* the last write left them.  Evictions and the put into IndexedDB happen only
\* at positions that are reached after a setItem has thrown.
C35_CleanUploadFrame ==
  [][/\ (IsIdle /\ up'.pc # "idle")
          => /\ ~up'.failed
             /\ metadata' = metadata /\ ls' = ls /\ idb' = idb /\ lsMeta' = lsMeta
     /\ (~IsIdle /\ up'.pc # "idle")
          => /\ ~up'.failed
                  => /\ metadata' = metadata /\ idb' = idb /\ lsMeta' = lsMeta
                     /\ \A k \in DOMAIN ls : k \in DOMAIN ls' /\ ls'[k] = ls[k]
             /\ (up'.failed /\ ~up.failed)
                  => /\ metadata' = metadata /\ idb' = idb /\ ls' = ls
             /\ up'.pc \in {"single_cleanup", "chunk_cleanup", "chunk_retry", "putblob"}
                  => up'.failed
     /\ (~IsIdle /\ ~up.failed /\ up'.pc = "idle" /\ ret'.ok)
          => /\ Len(metadata') = Len(metadata) + 1
             /\ SubSeq(metadata', 1, Len(metadata)) = metadata
             /\ LET m == metadata'[Len(metadata')]
                IN /\ m.id = up.id /\ m.type = "file"
                   /\ m.storageMethod = "localStorage"
             /\ ls' = ls /\ idb' = idb
             /\ up.id \notin DOMAIN idb]_vars

\* C35 witness: both chunks of the second upload are written and no setItem
\* has thrown, while the catalog holds an earlier record with its blob in
\* IndexedDB.
C35_Witness ==
  /\ up.pc = "record" /\ ~up.failed /\ up.chunkCount = 2
  /\ \E i \in 1..Len(metadata) :
       /\ metadata[i].type = "file" /\ metadata[i].storageMethod = "indexedDB"
       /\ metadata[i].id \in DOMAIN idb

(***************************************************************************)
(* Overlapped operations.  A public operation runs without interruption    *)
(* from one await of a store or FileReader call to the next; while it is   *)
(* suspended there, another operation can run.  uploadFile is suspended at *)
(* `await this.blobToBase64(...)` (lines 263 and 295), deleteDirectory at  *)
(* `await idb.deleteBlob(fileId)` inside its loop (line 478).  While a     *)
(* deleteDirectory is suspended the operations that run here are the       *)
(* queries; while an upload is suspended the operation that runs here is   *)
(* clearAllData.                                                           *)
(***************************************************************************)
\* the positions of an upload that is suspended at blobToBase64
UploadSuspended == up.pc \in {"single", "chunk"}

\* itemsToDelete of lines 462-467 as the array it is: ids in Map order
ItemsInOrder(md, path) ==
  LET ids == ItemsToDelete(md, path)
      sel == SelectSeq(md, LAMBDA m : m.id \in ids)
  IN [i \in 1..Len(sel) |-> sel[i].id]

RECURSIVE DeleteLoop(_, _, _)
\* the loop of lines 469-482 from the item Head(items) up to its next
\* `await idb.deleteBlob`, or to its end: `rest` starts with the id whose
\* blob is being deleted and whose record is still in the map
DeleteLoop(md, store, items) ==
  IF items = << >> THEN [metadata |-> md, ls |-> store, rest |-> << >>]
  ELSE LET fileId == Head(items)
       IN IF fileId \in Ids(md) /\ Get(md, fileId).type = "file"
          THEN LET m == Get(md, fileId)
                   store1 == Remove(store, RecordKeys(m))
               IN IF m.storageMethod = "indexedDB"
                  THEN [metadata |-> md, ls |-> store1, rest |-> items]
                  ELSE DeleteLoop(MapDelete(md, {fileId}), store1, Tail(items))
          ELSE DeleteLoop(MapDelete(md, {fileId}), store, Tail(items))

\* deleteDirectory from a position of its loop to its next await or to its
\* return (lines 469-485); d is the call
DeleteDirectoryRun(md, items, d) ==
  LET r == DeleteLoop(md, ls, items)
  IN /\ metadata' = r.metadata
     /\ ls' = r.ls
     /\ IF r.rest # << >>
        THEN /\ del' = [d EXCEPT !.rest = r.rest]
             /\ UNCHANGED <<activityLog, lsMeta, ret>>
        ELSE /\ del' = Idle
             /\ \E saved \in Outcomes("save") :
                  IF saved
                  THEN /\ lsMeta' = <<SerializeMetadata(r.metadata)>>
                       /\ activityLog' = LogActivity(activityLog, "delete_directory",
                                                     d.path, d.user, TRUE, NoError)
                       /\ ret' = Result("deleteDirectory", TRUE, NoError, 0)
                  ELSE /\ ret' = Result("deleteDirectory", FALSE, SaveThrows, 0)
                       /\ UNCHANGED <<activityLog, lsMeta>>

\* deleteDirectory(path, deletedBy) of a path it accepts, up to its first await
DeleteDirectoryBegin(path, deletedBy) ==
  /\ initialized /\ IsIdle /\ del = Idle
  /\ PathAccepted(path) /\ path # ASSETS_ROOT
  /\ DeleteDirectoryRun(metadata, ItemsInOrder(metadata, path),
                        [pc |-> "delete_blob", path |-> path, user |-> deletedBy,
                         rest |-> << >>, items |-> ItemsToDelete(metadata, path),
                         before |-> metadata])
  /\ UNCHANGED <<initialized, idb, now, nextId, up, env>>

\* idb.deleteBlob has settled (a rejection is swallowed): the record of the
\* file goes, and the loop goes on
DeleteDirectoryResume ==
  /\ del.pc = "delete_blob" /\ IsIdle
  /\ \E delOk \in Outcomes("delete") :
       idb' = DeleteBlob(idb, Head(del.rest), delOk)
  /\ DeleteDirectoryRun(MapDelete(metadata, {Head(del.rest)}), Tail(del.rest), del)
  /\ UNCHANGED <<initialized, now, nextId, up, env>>

\* clearAllData() while an upload is suspended
ClearAllDataDuringUpload ==
  /\ initialized /\ UploadSuspended
  /\ ls' = Empty
  /\ lsMeta' = << >>
  /\ metadata' = << >>
  /\ activityLog' = LogActivity(<< >>, "clear_all", <<"/">>, "system", TRUE, NoError)
  /\ ret' = Result("clearAllData", TRUE, NoError, 0)
  /\ UNCHANGED <<initialized, idb, now, nextId, up, del, env>>

NextOverlapped ==
  \/ Initialize
  \/ \E file \in env.files, path \in env.uploadPaths, uploadedBy \in env.users :
       del = Idle /\ UploadStart(file, path, uploadedBy)
  \/ UploadSingle
  \/ UploadSingleCleanup
  \/ UploadPutBlob
  \/ UploadChunk
  \/ UploadChunkRetry
  \/ UploadChunkCleanup
  \/ UploadRecord
  \/ ClearAllDataDuringUpload
  \/ \E fileId \in FileIds, u \in env.users : del = Idle /\ DownloadFile(fileId, u)
  \/ \E path \in env.dirPaths, u \in env.users : del = Idle /\ CreateDirectory(path, u)
  \/ \E path \in env.dirPaths, u \in env.users : DeleteDirectoryBegin(path, u)
  \/ DeleteDirectoryResume
  \/ \E path \in env.queries : ListDirectory(path)
  \/ GetFoldersQuery

\* a directory below a directory, files of one and of two chunks; the primary
\* store may be full
OverlapInputs ==
  [files |-> TwoFiles, uploadPaths |-> {<<"a">>}, users |-> {"alice"},
   dirPaths |-> {Join(ASSETS_ROOT, <<"a">>), Join(ASSETS_ROOT, <<"a", "/", "b">>)},
   permissions |-> {[read |-> {}, write |-> {"alice"}, delete |-> {}]},
   queries |-> {ASSETS_ROOT, Join(ASSETS_ROOT, <<"a">>)}, logEntries |-> SmallLog,
   ids |-> MaxIds, faults |-> {"write"}]

InitOverlapped == InitEngine /\ env = OverlapInputs

SpecOverlapped == InitOverlapped /\ [][NextOverlapped]_vars

\* C31: a getFolders or listDirectory that runs while a deleteDirectory is in
\* progress returns what it returns on the catalog as deleteDirectory found
\* it, or what it returns on that catalog without the records of the subtree.
C31_QueriesSeeAllOrNone ==
  [][del.pc # "idle"
       => LET all == del.before
              none == MapDelete(del.before, del.items)
          IN /\ GetFoldersQuery
                  => GetFolders(metadata) \in {GetFolders(all), GetFolders(none)}
             /\ \A path \in env.queries :
                  (ListDirectory(path) /\ ~ListDirectoryThrows(path))
                    => Listing(metadata, path)
                         \in {Listing(all, path), Listing(none, path)}]_vars

\* C38: when an upload that overlapped with another operation has returned
\* and nothing is in progress, every file record of the catalog has its data:
\* its blob in IndexedDB, or every one of its chunk keys, or its unchunked key
\* in localStorage.
C38_OverlappedRecordsBacked ==
  (IsIdle /\ del = Idle)
    => \A i \in 1..Len(metadata) :
         LET m == metadata[i]
         IN m.type = "file"
              => IF m.storageMethod = "indexedDB"
                 THEN m.id \in DOMAIN idb
                 ELSE IF m.chunkCount > 1
                 THEN \A j \in 0..(m.chunkCount - 1) : ChunkKey(m.id, j) \in DOMAIN ls
                 ELSE FileKey(m.id) \in DOMAIN ls

====
